---- MODULE Spec2Model ----
(***************************************************************************)
(* Model of the grid-trading strategy of rust-grid-trader                  *)
(* (src/src/algorithm/grid.rs, src/src/algorithm/position.rs) and of its   *)
(* indicators (src/src/algorithm/indicators/sma.rs, rsi.rs).               *)
(*                                                                         *)
(* Decimal values (rust_decimal::Decimal) are integers counting units of   *)
(* 1/Scale.  The products and quotients that decide bands, zones, spacing  *)
(* and levels are exact at that scale on the value sets below, as they are *)
(* in rust_decimal.  Order quantities, which the code rounds to 8 decimal  *)
(* places, count units of 10^-8.                                           *)
(***************************************************************************)
EXTENDS Integers, Sequences, FiniteSets, TLC

VARIABLES
    grid,              \* the Grid strategy object: configuration and position sizer
    instrument_grids,  \* Grid.instrument_grids: instrument name -> InstrumentGridState
    state,             \* the engine state handed to the last generate_algo_orders call
    signals,           \* per instrument: what process_instrument_signal returned in the last cycle
    orders,            \* what the last generate_algo_orders call returned
    grid_setup,        \* per instrument: the level generation of the last cycle, if any
    crossing_log,      \* per instrument name: every crossing signal emitted so far
    cycles,            \* number of decision cycles run
    call,              \* the last direct call of a pure function, with its result
    lock,              \* the Mutex around Grid.instrument_grids: the thread holding its guard
    pc,                \* per thread running decision cycles on the one Grid: its position
    threads,           \* per thread: the locals of its generate_algo_orders call
    serial,            \* the same cycles applied one at a time, in the order the lock was taken
    sma_state,         \* an SMA indicator object, with the prices pushed since its last reset
    rsi_state,         \* a windowed RSI indicator object, with the clock of its updates
    vwap_state,        \* a VwapIndicator object, with the updates made on it
    sizer_state,       \* a PositionSizer object, with the last call made on it
    data_state,        \* an AlgorithmData object, with the last event it processed
    strategy_state,    \* a Vwap strategy object, with the cycles run on it
    sma_data_state     \* a SmaInstrumentData and an SMA indicator fed the same prices

\* The variables of the threads that share one Grid
conc_vars == <<lock, pc, threads, serial>>

\* The indicator objects
indicator_vars == <<sma_state, rsi_state, vwap_state>>

\* The objects of the data and strategy modules
aux_vars == <<data_state, strategy_state, sma_data_state>>

vars == <<grid, instrument_grids, state, signals, orders, grid_setup, crossing_log, cycles, call, lock, pc, threads, serial, sma_state, rsi_state, vwap_state, sizer_state, data_state, strategy_state, sma_data_state>>

\* Option<T>: None is the empty sequence, Some(x) the sequence of x alone
Nil == <<>>

Some(x) == <<x>>

----------------------------------------------------------------------------
\* Decimal arithmetic

Scale == 10 ^ 3

FromInt(i) == i * Scale

Mul(a, b) == (a * b) \div Scale

Div(a, b) == (a * Scale) \div b

RECURSIVE LongDiv(_, _, _, _)
\* n more decimal digits of rem/d appended to the digits in acc
LongDiv(rem, d, n, acc) ==
    IF n = 0 THEN [q |-> acc, r |-> rem]
    ELSE LongDiv((rem * 10) % d, d, n - 1, acc * 10 + ((rem * 10) \div d))

\* (n / d).round_dp(8): the quotient in units of 10^-8, midpoint to even
DivRoundDp8(n, d) ==
    LET res == LongDiv(n % d, d, 8, n \div d)
        up  == \/ 2 * res.r > d
               \/ 2 * res.r = d /\ res.q % 2 = 1
    IN  IF up THEN res.q + 1 ELSE res.q

Min(S) == CHOOSE x \in S : \A y \in S : x <= y

Max(S) == CHOOSE x \in S : \A y \in S : x >= y

RECURSIVE Sum(_)
Sum(s) == IF s = <<>> THEN 0 ELSE Head(s) + Sum(Tail(s))

RECURSIVE Ascending(_)
\* iteration order of a BTreeSet
Ascending(S) ==
    IF S = {} THEN <<>>
    ELSE LET m == Min(S) IN <<m>> \o Ascending(S \ {m})

Range(s) == {s[k] : k \in DOMAIN s}

----------------------------------------------------------------------------
\* PositionSizer (position.rs)

PositionSizer_new(wallet_size) ==
    [wallet_size |-> wallet_size, risk_percentage |-> 5]

PositionSizer_with_risk(wallet_size, risk_percentage) ==
    [wallet_size |-> wallet_size, risk_percentage |-> risk_percentage]

\* wallet_size * risk_percentage, exact, in units of 1/Scale^2
risk_amount(sizer) == sizer.wallet_size * sizer.risk_percentage

\* the quotient cut after 8 decimal places instead of rounded
calculate_quantity_truncated(sizer, price) ==
    IF price <= 0 THEN 0
    ELSE LongDiv(risk_amount(sizer) % (price * Scale), price * Scale, 8,
                 risk_amount(sizer) \div (price * Scale)).q

\* the quantity in units of 10^-8
calculate_quantity(sizer, price) ==
    IF price <= 0 THEN 0
    ELSE DivRoundDp8(risk_amount(sizer), price * Scale)

\* the price factor is left out
calculate_position_value_per_unit(sizer, price) ==
    calculate_quantity(sizer, price)

\* quantity * price, exact, in units of 10^-8/Scale
calculate_position_value(sizer, price) ==
    calculate_quantity(sizer, price) * price

update_wallet_size(sizer, new_wallet_size) ==
    [sizer EXCEPT !.wallet_size = new_wallet_size]

\* the new risk percentage is not stored
update_risk_percentage_dropped(sizer, new_risk_percentage) ==
    sizer

update_risk_percentage(sizer, new_risk_percentage) ==
    [sizer EXCEPT !.risk_percentage = new_risk_percentage]

----------------------------------------------------------------------------
\* Grid: enums and construction (grid.rs)

GridZone == {"AboveHighBand", "BetweenBands", "BelowLowBand"}

TmaState == {"BullishTrend", "BearishTrend", "Sideways"}

SignalType == {"Buy", "Sell", "None"}

Grid_ID == "grid"

Grid_new(wallet_size) ==
    [position_sizer          |-> PositionSizer_new(wallet_size),
     band_percentage         |-> 50,
     tma_period              |-> 14,
     grid_spacing_percentage |-> 20,
     max_grid_levels         |-> 10,
     price_history_length    |-> 50]

Grid_with_params(wallet_size, band_percentage, tma_period, risk_percentage, grid_spacing_percentage, max_grid_levels) ==
    [position_sizer          |-> PositionSizer_with_risk(wallet_size, risk_percentage),
     band_percentage         |-> band_percentage,
     tma_period              |-> tma_period,
     grid_spacing_percentage |-> grid_spacing_percentage,
     max_grid_levels         |-> max_grid_levels,
     price_history_length    |-> 50]

----------------------------------------------------------------------------
\* Grid: classification pipeline (grid.rs)

calculate_tma(sma) == sma

\* Variant: the offset is subtracted for the high band and added for the low
calculate_bands_swapped(g, tma) ==
    LET band_offset == Mul(tma, g.band_percentage)
    IN  [high_band |-> tma - band_offset, low_band |-> tma + band_offset]

calculate_bands(g, tma) ==
    LET band_offset == Mul(tma, g.band_percentage)
    IN  [high_band |-> tma + band_offset, low_band |-> tma - band_offset]

\* Variant: the width of the upper half band only
calculate_volatility_half(high_band, low_band, tma) ==
    IF tma = 0 THEN 0
    ELSE Mul(Div(high_band - tma, tma), FromInt(100))

calculate_volatility(high_band, low_band, tma) ==
    IF tma = 0 THEN 0
    ELSE Mul(Div(high_band - low_band, tma), FromInt(100))

determine_grid_zone(price, high_band, low_band) ==
    IF price > high_band THEN "AboveHighBand"
    ELSE IF price < low_band THEN "BelowLowBand"
    ELSE "BetweenBands"

determine_tma_state(price, tma, previous_price) ==
    LET price_above_tma    == price > tma
        previous_above_tma == previous_price > tma
    IN  IF price_above_tma /\ previous_above_tma THEN "BullishTrend"
        ELSE IF ~price_above_tma /\ ~previous_above_tma THEN "BearishTrend"
        ELSE "Sideways"

\* Variant: a volatility of exactly 5 widens the spacing
calculate_grid_spacing_inclusive(g, price, volatility) ==
    LET base_spacing == Mul(price, g.grid_spacing_percentage)
        volatility_multiplier ==
            IF volatility >= 5000 THEN 1500
            ELSE IF volatility < 2000 THEN 700
            ELSE 1000
    IN  Mul(base_spacing, volatility_multiplier)

calculate_grid_spacing(g, price, volatility) ==
    LET base_spacing == Mul(price, g.grid_spacing_percentage)
        volatility_multiplier ==
            IF volatility > 5000 THEN 1500
            ELSE IF volatility < 2000 THEN 700
            ELSE 1000
    IN  Mul(base_spacing, volatility_multiplier)

\* Variant: buy levels at or below zero are kept
generate_grid_levels_unfiltered(g, current_price, tma, volatility) ==
    LET grid_spacing == calculate_grid_spacing(g, current_price, volatility)
        buy_level(i)  == current_price - Mul(grid_spacing, FromInt(i))
        sell_level(i) == current_price + Mul(grid_spacing, FromInt(i))
    IN  [buy_levels  |-> {buy_level(i) : i \in 1..g.max_grid_levels},
         sell_levels |-> {sell_level(i) : i \in 1..g.max_grid_levels}]

generate_grid_levels(g, current_price, tma, volatility) ==
    LET grid_spacing == calculate_grid_spacing(g, current_price, volatility)
        buy_level(i)  == current_price - Mul(grid_spacing, FromInt(i))
        sell_level(i) == current_price + Mul(grid_spacing, FromInt(i))
    IN  [buy_levels  |-> {buy_level(i) : i \in {j \in 1..g.max_grid_levels : buy_level(j) > 0}},
         sell_levels |-> {sell_level(i) : i \in 1..g.max_grid_levels}]

\* Variant: on overflow the pushed price is the one dropped
update_price_history_drop_newest(g, price_history, new_price) ==
    LET pushed == Append(price_history, new_price)
    IN  IF Len(pushed) > g.price_history_length THEN price_history ELSE pushed

update_price_history(g, price_history, new_price) ==
    LET pushed == Append(price_history, new_price)
    IN  IF Len(pushed) > g.price_history_length THEN Tail(pushed) ELSE pushed

analyze_price_ranges(price_history) ==
    IF price_history = <<>> THEN <<0, 0, 0>>
    ELSE <<Min(Range(price_history)),
           Max(Range(price_history)),
           Div(Sum(price_history), FromInt(Len(price_history)))>>

\* Variant: filled levels are not skipped
check_grid_level_crosses_refire(grid_state, current_price) ==
    LET previous_price == grid_state.current_price
        buy_cross(l)  == previous_price > l /\ current_price <= l
        sell_cross(l) == previous_price < l /\ current_price >= l
        buys  == Ascending({l \in grid_state.buy_levels : buy_cross(l)})
        sells == Ascending({l \in grid_state.sell_levels : sell_cross(l)})
    IN  [k \in 1..Len(buys) |-> <<buys[k], "Buy">>]
        \o [k \in 1..Len(sells) |-> <<sells[k], "Sell">>]

\* Variant: a price that lands exactly on a level does not cross it
check_grid_level_crosses_strict(grid_state, current_price) ==
    LET previous_price == grid_state.current_price
        buy_cross(l)  == /\ l \notin grid_state.filled_levels
                         /\ previous_price > l
                         /\ current_price < l
        sell_cross(l) == /\ l \notin grid_state.filled_levels
                         /\ previous_price < l
                         /\ current_price > l
        buys  == Ascending({l \in grid_state.buy_levels : buy_cross(l)})
        sells == Ascending({l \in grid_state.sell_levels : sell_cross(l)})
    IN  [k \in 1..Len(buys) |-> <<buys[k], "Buy">>]
        \o [k \in 1..Len(sells) |-> <<sells[k], "Sell">>]

check_grid_level_crosses(grid_state, current_price) ==
    LET previous_price == grid_state.current_price
        buy_cross(l)  == /\ l \notin grid_state.filled_levels
                         /\ previous_price > l
                         /\ current_price <= l
        sell_cross(l) == /\ l \notin grid_state.filled_levels
                         /\ previous_price < l
                         /\ current_price >= l
        \* the levels pushed while iterating each set in ascending order
        buys  == Ascending({l \in grid_state.buy_levels : buy_cross(l)})
        sells == Ascending({l \in grid_state.sell_levels : sell_cross(l)})
    IN  [k \in 1..Len(buys) |-> <<buys[k], "Buy">>]
        \o [k \in 1..Len(sells) |-> <<sells[k], "Sell">>]

should_generate_grid_signal(previous_zone, current_zone, tma_state) ==
    \/ previous_zone = "BelowLowBand" /\ current_zone = "BetweenBands"
    \/ previous_zone = "AboveHighBand" /\ current_zone = "BetweenBands"
    \/ previous_zone = "BetweenBands" /\ current_zone = "BelowLowBand"
       /\ tma_state = "BullishTrend"
    \/ previous_zone = "BetweenBands" /\ current_zone = "AboveHighBand"
       /\ tma_state = "BearishTrend"

\* Variant: the two trend-conditioned rows signal under any trend
get_grid_signal_type_any_trend(previous_zone, current_zone, tma_state) ==
    IF previous_zone = "BelowLowBand" /\ current_zone = "BetweenBands" THEN "Buy"
    ELSE IF previous_zone = "BetweenBands" /\ current_zone = "BelowLowBand" THEN "Buy"
    ELSE IF previous_zone = "AboveHighBand" /\ current_zone = "BetweenBands" THEN "Sell"
    ELSE IF previous_zone = "BetweenBands" /\ current_zone = "AboveHighBand" THEN "Sell"
    ELSE "None"

get_grid_signal_type(previous_zone, current_zone, tma_state) ==
    IF previous_zone = "BelowLowBand" /\ current_zone = "BetweenBands" THEN "Buy"
    ELSE IF previous_zone = "BetweenBands" /\ current_zone = "BelowLowBand"
            /\ tma_state = "BullishTrend" THEN "Buy"
    ELSE IF previous_zone = "AboveHighBand" /\ current_zone = "BetweenBands" THEN "Sell"
    ELSE IF previous_zone = "BetweenBands" /\ current_zone = "AboveHighBand"
            /\ tma_state = "BearishTrend" THEN "Sell"
    ELSE "None"

----------------------------------------------------------------------------
\* Grid: one instrument's decision (grid.rs)

\* Variant: a new entry starts below the low band
NewInstrumentGridState_below(g, price, volatility) ==
    [current_price  |-> price,
     price_history  |-> <<price>>,
     buy_levels     |-> {},
     sell_levels    |-> {},
     filled_levels  |-> {},
     grid_spacing   |-> calculate_grid_spacing(g, price, volatility),
     last_grid_zone |-> "BelowLowBand",
     last_tma_state |-> "Sideways"]

\* Variant: a new entry starts above the high band
NewInstrumentGridState_above(g, price, volatility) ==
    [current_price  |-> price,
     price_history  |-> <<price>>,
     buy_levels     |-> {},
     sell_levels    |-> {},
     filled_levels  |-> {},
     grid_spacing   |-> calculate_grid_spacing(g, price, volatility),
     last_grid_zone |-> "AboveHighBand",
     last_tma_state |-> "Sideways"]

NewInstrumentGridState(g, price, volatility) ==
    [current_price  |-> price,
     price_history  |-> <<price>>,
     buy_levels     |-> {},
     sell_levels    |-> {},
     filled_levels  |-> {},
     grid_spacing   |-> calculate_grid_spacing(g, price, volatility),
     last_grid_zone |-> "BetweenBands",
     last_tma_state |-> "Sideways"]

\* The map after entry(key).or_insert_with(..) and the writes through the
\* returned reference
MapPut(grids, key, value) ==
    [k \in DOMAIN grids \cup {key} |-> IF k = key THEN value ELSE grids[k]]

GridSignal(instrument_state, signal_type, price, tma, bands, volatility, signal_source, grid_level) ==
    [signal_type      |-> signal_type,
     instrument_key   |-> instrument_state.name,
     instrument_index |-> instrument_state.key,
     exchange_index   |-> instrument_state.exchange,
     price            |-> price,
     tma              |-> tma,
     high_band        |-> bands.high_band,
     low_band         |-> bands.low_band,
     volatility       |-> volatility,
     signal_source    |-> signal_source,
     grid_level       |-> grid_level]

\* The signals pushed for the level crosses, in the order of the crosses
CrossSignals(instrument_state, level_crosses, tma, bands, volatility) ==
    [k \in 1..Len(level_crosses) |->
        GridSignal(instrument_state, level_crosses[k][2], level_crosses[k][1],
                   tma, bands, volatility,
                   <<"GRID_LEVEL", level_crosses[k][2], level_crosses[k][1]>>,
                   Some(level_crosses[k][1]))]

\* Variant: the zone-transition signal is pushed whatever the crossings
FallbackSignals_unguarded(instrument_state, cross_signals, previous_zone, current_zone, tma_state, price, tma, bands, volatility) ==
    IF should_generate_grid_signal(previous_zone, current_zone, tma_state)
    THEN LET signal_type == get_grid_signal_type(previous_zone, current_zone, tma_state)
         IN  IF signal_type # "None"
             THEN Append(cross_signals,
                         GridSignal(instrument_state, signal_type, price,
                                    tma, bands, volatility,
                                    <<"TRADITIONAL", previous_zone, current_zone>>,
                                    Nil))
             ELSE cross_signals
    ELSE cross_signals

\* The signals vector after the fallback block, given the vector before it
FallbackSignals(instrument_state, cross_signals, previous_zone, current_zone, tma_state, price, tma, bands, volatility) ==
    IF cross_signals = <<>>
    THEN IF should_generate_grid_signal(previous_zone, current_zone, tma_state)
         THEN LET signal_type == get_grid_signal_type(previous_zone, current_zone, tma_state)
              IN  IF signal_type # "None"
                  THEN Append(cross_signals,
                              GridSignal(instrument_state, signal_type, price,
                                         tma, bands, volatility,
                                         <<"TRADITIONAL", previous_zone, current_zone>>,
                                         Nil))
                  ELSE cross_signals
         ELSE cross_signals
    ELSE cross_signals

\* Variant: levels are regenerated only when both sets are empty
NeedsGridLevels_both(grid_state) ==
    grid_state.buy_levels = {} /\ grid_state.sell_levels = {}

\* The regeneration check: a level set is empty
NeedsGridLevels(grid_state) ==
    grid_state.buy_levels = {} \/ grid_state.sell_levels = {}

\* Variant: the crossed levels replace the filled ones
MarkFilled_replaced(grid_state, level_crosses) ==
    [grid_state EXCEPT
        !.filled_levels = {level_crosses[k][1] : k \in 1..Len(level_crosses)}]

\* filled_levels.insert(level_price) for each cross
MarkFilled(grid_state, level_crosses) ==
    [grid_state EXCEPT
        !.filled_levels = @ \cup {level_crosses[k][1] : k \in 1..Len(level_crosses)}]

\* Variant: the zone is not stored
UpdateGridState_stale_zone(grid_state, price, current_zone, tma_state) ==
    [grid_state EXCEPT !.current_price  = price,
                       !.last_tma_state = tma_state]

\* The writes that end process_instrument_signal
UpdateGridState(grid_state, price, current_zone, tma_state) ==
    [grid_state EXCEPT !.current_price  = price,
                       !.last_grid_zone = current_zone,
                       !.last_tma_state = tma_state]

\* process_instrument_signal once the price and the SMA value are known.
\* Locked is the part under the map lock, on the entry found or inserted;
\* Checked is the part that follows the regeneration block.
EvaluateInstrument(g, grids, instrument_state, price, sma) ==
    LET instrument_key == instrument_state.name
        tma            == calculate_tma(sma)
        bands          == calculate_bands(g, tma)
        volatility     == calculate_volatility(bands.high_band, bands.low_band, tma)
        current_zone   == determine_grid_zone(price, bands.high_band, bands.low_band)
        Locked(entry) ==
            LET previous_zone  == entry.last_grid_zone
                previous_price == entry.current_price
                price_history  == update_price_history(g, entry.price_history, price)
                ranges         == analyze_price_ranges(price_history)
                tma_state      == determine_tma_state(price, tma, previous_price)
                regenerate     == NeedsGridLevels(entry)
                levels         == generate_grid_levels(g, price, tma, volatility)
                Checked(grid_state, level_crosses) ==
                    [signals |->
                        FallbackSignals(
                            instrument_state,
                            CrossSignals(instrument_state, level_crosses, tma, bands,
                                         volatility),
                            previous_zone, current_zone, tma_state, price, tma, bands,
                            volatility),
                     instrument_grids |->
                        MapPut(grids, instrument_key,
                            UpdateGridState(MarkFilled(grid_state, level_crosses),
                                            price, current_zone, tma_state)),
                     \* the GRID SETUP line printed when the levels are generated
                     setup |->
                        IF regenerate
                        THEN Some([price |-> price, tma |-> tma, volatility |-> volatility,
                                   spacing |-> grid_state.grid_spacing,
                                   buy_levels |-> Cardinality(grid_state.buy_levels),
                                   sell_levels |-> Cardinality(grid_state.sell_levels),
                                   min_price |-> ranges[1], max_price |-> ranges[2]])
                        ELSE Nil]
                WithLevels(grid_state) ==
                    Checked(grid_state, check_grid_level_crosses(grid_state, price))
            IN  WithLevels(
                    IF regenerate
                    THEN [entry EXCEPT !.price_history = price_history,
                                       !.buy_levels    = levels.buy_levels,
                                       !.sell_levels   = levels.sell_levels]
                    ELSE [entry EXCEPT !.price_history = price_history])
    IN  \* lock; entry(..).or_insert_with(..)
        Locked(IF instrument_key \in DOMAIN grids
               THEN grids[instrument_key]
               ELSE NewInstrumentGridState(g, price, volatility))

\* Variant: a missing SMA value is replaced by the price
process_instrument_signal_sma_default(g, grids, instrument_state) ==
    IF instrument_state.data.price = Nil
    THEN [signals |-> <<>>, instrument_grids |-> grids, setup |-> Nil]
    ELSE EvaluateInstrument(g, grids, instrument_state,
                            instrument_state.data.price[1],
                            IF instrument_state.data.sma = Nil
                            THEN instrument_state.data.price[1]
                            ELSE instrument_state.data.sma[1])

process_instrument_signal(g, grids, instrument_state) ==
    IF instrument_state.data.price = Nil
    THEN [signals |-> <<>>, instrument_grids |-> grids, setup |-> Nil]
    ELSE IF instrument_state.data.sma = Nil
    THEN [signals |-> <<>>, instrument_grids |-> grids, setup |-> Nil]
    ELSE EvaluateInstrument(g, grids, instrument_state,
                            instrument_state.data.price[1], instrument_state.data.sma[1])

----------------------------------------------------------------------------
\* Grid: order construction (grid.rs)

create_buy_order(g, signal) ==
    [key   |-> [exchange   |-> signal.exchange_index,
                instrument |-> signal.instrument_index,
                strategy   |-> Grid_ID,
                cid        |-> "default"],
     state |-> [side          |-> "Buy",
                price         |-> signal.price,
                quantity      |-> calculate_quantity(g.position_sizer, signal.price),
                kind          |-> "Limit",
                time_in_force |-> "GoodUntilEndOfDay"]]

\* Variant: the sell order is built with the buy side
create_sell_order_buy_side(g, signal) ==
    [key   |-> [exchange   |-> signal.exchange_index,
                instrument |-> signal.instrument_index,
                strategy   |-> Grid_ID,
                cid        |-> "default"],
     state |-> [side          |-> "Buy",
                price         |-> signal.price,
                quantity      |-> calculate_quantity(g.position_sizer, signal.price),
                kind          |-> "Limit",
                time_in_force |-> "GoodUntilEndOfDay"]]

create_sell_order(g, signal) ==
    [key   |-> [exchange   |-> signal.exchange_index,
                instrument |-> signal.instrument_index,
                strategy   |-> Grid_ID,
                cid        |-> "default"],
     state |-> [side          |-> "Sell",
                price         |-> signal.price,
                quantity      |-> calculate_quantity(g.position_sizer, signal.price),
                kind          |-> "Limit",
                time_in_force |-> "GoodUntilEndOfDay"]]

\* The orders pushed for the signals of one instrument
BuyOrders(g, sigs) ==
    LET buys == SelectSeq(sigs, LAMBDA s : s.signal_type = "Buy")
    IN  [j \in 1..Len(buys) |-> create_buy_order(g, buys[j])]

SellOrders(g, sigs) ==
    LET sells == SelectSeq(sigs, LAMBDA s : s.signal_type = "Sell")
    IN  [j \in 1..Len(sells) |-> create_sell_order(g, sells[j])]

RECURSIVE ScanInstruments(_, _, _, _)
\* The loop of generate_algo_orders over the instruments from index k on;
\* acc carries the map, the order vectors and each instrument's signals.
ScanInstruments(g, engine_state, k, acc) ==
    IF k > Len(engine_state) THEN acc
    ELSE LET Step(res) ==
                 [instrument_grids |-> res.instrument_grids,
                  buy_orders       |-> acc.buy_orders \o BuyOrders(g, res.signals),
                  sell_orders      |-> acc.sell_orders \o SellOrders(g, res.signals),
                  signals          |-> Append(acc.signals, res.signals),
                  setups           |-> Append(acc.setups, res.setup)]
         IN  ScanInstruments(g, engine_state, k + 1,
                Step(process_instrument_signal(g, acc.instrument_grids, engine_state[k])))

\* Variant: the sell orders are not chained to the result
generate_algo_orders_buys_only(g, grids, engine_state) ==
    LET Result(scan) ==
            [instrument_grids |-> scan.instrument_grids,
             cancels          |-> <<>>,
             opens            |-> scan.buy_orders,
             signals          |-> scan.signals,
             setups           |-> scan.setups]
    IN  Result(ScanInstruments(g, engine_state, 1,
                    [instrument_grids |-> grids, buy_orders |-> <<>>, sell_orders |-> <<>>,
                     signals |-> <<>>, setups |-> <<>>]))

generate_algo_orders(g, grids, engine_state) ==
    LET Result(scan) ==
            [instrument_grids |-> scan.instrument_grids,
             cancels          |-> <<>>,
             opens            |-> scan.buy_orders \o scan.sell_orders,
             signals          |-> scan.signals,
             setups           |-> scan.setups]
    IN  Result(ScanInstruments(g, engine_state, 1,
                    [instrument_grids |-> grids, buy_orders |-> <<>>, sell_orders |-> <<>>,
                     signals |-> <<>>, setups |-> <<>>]))

----------------------------------------------------------------------------
\* The strategy objects and the inputs of the model

\* Bound on the process_instrument_signal calls of one behaviour
MaxCalls == 4

WideGridLevels == 9

\* extract_usdt_wallet_size's fallback, and the wallet of Grid::default()
WalletSize == FromInt(10000)

DefaultWalletSize == FromInt(1000)

\* The strategy main.rs builds: 5% bands, 0.5% risk, 1% spacing, 15 levels
MainGrid == Grid_with_params(WalletSize, 50, 14, 5, 10, 15)

\* A with_params strategy whose lowest buy levels fall below zero
WideGrid == Grid_with_params(WalletSize, 50, 14, 5, 80, WideGridLevels)

\* A with_params strategy whose spacing exceeds the price: no buy level is
\* positive, so buy_levels stays empty
SteepGrid == Grid_with_params(WalletSize, 50, 14, 5, 700, 2)

DefaultGrid == Grid_new(DefaultWalletSize)

Grids == {MainGrid, WideGrid, SteepGrid, DefaultGrid}

\* The instruments the engine was built with, as
\* state.instruments.instruments(&InstrumentFilter::None) iterates them
InstrumentLists ==
    {<<[key |-> 0, exchange |-> 0, name |-> "btc_usdt"]>>,
     <<[key |-> 0, exchange |-> 0, name |-> "btc_usdt"],
       [key |-> 1, exchange |-> 0, name |-> "eth_usdt"]>>}

Names == {"btc_usdt", "eth_usdt"}

Prices == {FromInt(85), FromInt(100), FromInt(112)}

Smas == {FromInt(100)}

\* instrument_state.data: the market price and the SMA value, each optional
DataStates ==
    [price : {Some(p) : p \in Prices} \cup {Nil}, sma : {Some(v) : v \in Smas} \cup {Nil}]

InstrumentState(instrument, data) ==
    [key |-> instrument.key, exchange |-> instrument.exchange,
     name |-> instrument.name, data |-> data]

\* The engine states over the instruments of engine_state
EngineStates(engine_state) ==
    {[k \in DOMAIN engine_state |-> InstrumentState(engine_state[k], d[k])] :
     d \in [DOMAIN engine_state -> DataStates]}

----------------------------------------------------------------------------
\* Specification of the decision cycles

Init ==
    /\ grid \in Grids
    /\ instrument_grids = <<>>
    /\ \E list \in InstrumentLists :
         state = [k \in DOMAIN list |-> InstrumentState(list[k], [price |-> Nil, sma |-> Nil])]
    /\ signals = [k \in DOMAIN state |-> <<>>]
    /\ orders = [cancels |-> <<>>, opens |-> <<>>]
    /\ grid_setup = [k \in DOMAIN state |-> Nil]
    /\ crossing_log = [n \in Names |-> <<>>]
    /\ cycles = 0
    /\ call = Nil
    /\ lock = Nil
    /\ pc = <<>>
    /\ threads = <<>>
    /\ serial = <<>>
    /\ sma_state = Nil
    /\ rsi_state = Nil
    /\ vwap_state = Nil
    /\ sizer_state = Nil
    /\ data_state = Nil
    /\ strategy_state = Nil
    /\ sma_data_state = Nil

\* The crossing signals among sigs, as the levels they carry
CrossingLevels(sigs) ==
    LET crossings == SelectSeq(sigs, LAMBDA s : s.grid_level # Nil)
    IN  [j \in 1..Len(crossings) |-> crossings[j].grid_level[1]]

RECURSIVE LogCrossings(_, _, _, _)
LogCrossings(log, engine_state, sigs, k) ==
    IF k > Len(sigs) THEN log
    ELSE LogCrossings(
            [log EXCEPT ![engine_state[k].name] = @ \o CrossingLevels(sigs[k])],
            engine_state, sigs, k + 1)

\* One decision cycle: the engine calls generate_algo_orders(state)
GenerateAlgoOrders(engine_state) ==
    /\ (cycles + 1) * Len(engine_state) <= MaxCalls
    /\ LET Returned(res) ==
               /\ instrument_grids' = res.instrument_grids
               /\ signals' = res.signals
               /\ orders' = [cancels |-> res.cancels, opens |-> res.opens]
               /\ grid_setup' = res.setups
               /\ crossing_log' = LogCrossings(crossing_log, engine_state, res.signals, 1)
       IN  Returned(generate_algo_orders(grid, instrument_grids, engine_state))
    /\ state' = engine_state
    /\ cycles' = cycles + 1
    /\ UNCHANGED <<grid, call, conc_vars, indicator_vars, sizer_state, aux_vars>>

Next == \E engine_state \in EngineStates(state) : GenerateAlgoOrders(engine_state)

Spec == Init /\ [][Next]_vars

----------------------------------------------------------------------------
\* Specification of direct calls of the pure functions

PureDecimals == {FromInt(98), FromInt(99), FromInt(100), FromInt(101), FromInt(102)}

CallDetermineTmaState(price, tma, previous_price) ==
    /\ call' = Some([fn     |-> "determine_tma_state",
                     args   |-> <<price, tma, previous_price>>,
                     result |-> determine_tma_state(price, tma, previous_price)])
    /\ UNCHANGED <<grid, instrument_grids, state, signals, orders, grid_setup,
                   crossing_log, cycles, conc_vars, indicator_vars, sizer_state, aux_vars>>

\* should_generate_grid_signal and get_grid_signal_type on the same triple
CallZoneTransition(previous_zone, current_zone, tma_state) ==
    /\ call' = Some([fn     |-> "zone_transition",
                     args   |-> <<previous_zone, current_zone, tma_state>>,
                     should |-> should_generate_grid_signal(previous_zone, current_zone,
                                                            tma_state),
                     result |-> get_grid_signal_type(previous_zone, current_zone,
                                                     tma_state)])
    /\ UNCHANGED <<grid, instrument_grids, state, signals, orders, grid_setup,
                   crossing_log, cycles, conc_vars, indicator_vars, sizer_state, aux_vars>>

\* volatilities on both sides of the thresholds 2 and 5
Volatilities == {0, 1999, FromInt(2), 2001, 4999, FromInt(5), 5001, FromInt(10)}

Bands == {FromInt(95), FromInt(100), FromInt(105)}

Tmas == {0, FromInt(100)}

CallCalculateVolatility(high_band, low_band, tma) ==
    /\ call' = Some([fn     |-> "calculate_volatility",
                     args   |-> <<high_band, low_band, tma>>,
                     result |-> calculate_volatility(high_band, low_band, tma)])
    /\ UNCHANGED <<grid, instrument_grids, state, signals, orders, grid_setup,
                   crossing_log, cycles, conc_vars, indicator_vars, sizer_state, aux_vars>>

\* calculate_grid_spacing, and generate_grid_levels on the same arguments
CallCalculateGridSpacing(price, tma, volatility) ==
    /\ call' = Some([fn     |-> "calculate_grid_spacing",
                     args   |-> <<price, tma, volatility>>,
                     result |-> calculate_grid_spacing(grid, price, volatility),
                     levels |-> generate_grid_levels(grid, price, tma, volatility)])
    /\ UNCHANGED <<grid, instrument_grids, state, signals, orders, grid_setup,
                   crossing_log, cycles, conc_vars, indicator_vars, sizer_state, aux_vars>>

BandPercentages == {0, 10, 50}

\* the classification of one cycle, as process_instrument_signal computes it:
\* bands, volatility, spacing, zone and trend, and the fallback decision from
\* a previous zone
CallClassify(band_percentage, previous_zone, price, tma, previous_price) ==
    /\ LET Classified(bands, tma_state) ==
               LET Decided(current_zone, volatility) ==
                       call' = Some([fn     |-> "classify",
                                     args   |-> <<band_percentage, previous_zone, price, tma, previous_price>>,
                                     volatility |-> volatility,
                                     spacing |-> calculate_grid_spacing(grid, price, volatility),
                                     zone   |-> current_zone,
                                     trend  |-> tma_state,
                                     should |-> should_generate_grid_signal(previous_zone, current_zone, tma_state),
                                     result |-> get_grid_signal_type(previous_zone, current_zone, tma_state)])
               IN  Decided(determine_grid_zone(price, bands.high_band, bands.low_band),
                           calculate_volatility(bands.high_band, bands.low_band, calculate_tma(tma)))
       IN  Classified(calculate_bands([grid EXCEPT !.band_percentage = band_percentage], calculate_tma(tma)),
                      determine_tma_state(price, calculate_tma(tma), previous_price))
    /\ UNCHANGED <<grid, instrument_grids, state, signals, orders, grid_setup,
                   crossing_log, cycles, conc_vars, indicator_vars, sizer_state, aux_vars>>

\* 0.333 times a band percentage has more decimal places than a Decimal of
\* this model keeps
ClassifyTmas == {333, FromInt(99), FromInt(100)}

ClassifyPreviousPrices == {FromInt(98), FromInt(100), FromInt(102)}

NextClassify ==
    \E band_percentage \in BandPercentages, previous_zone \in GridZone, price \in PureDecimals, tma \in ClassifyTmas, previous_price \in ClassifyPreviousPrices :
        CallClassify(band_percentage, previous_zone, price, tma, previous_price)

SpecClassify == Init /\ [][NextClassify]_vars

NextPure ==
    \/ \E high_band \in Bands, low_band \in Bands, tma \in Tmas :
         CallCalculateVolatility(high_band, low_band, tma)
    \/ \E price \in PureDecimals, tma \in Tmas, volatility \in Volatilities :
         CallCalculateGridSpacing(price, tma, volatility)
    \/ \E price \in PureDecimals, tma \in PureDecimals, previous_price \in PureDecimals :
         CallDetermineTmaState(price, tma, previous_price)
    \/ \E previous_zone \in GridZone, current_zone \in GridZone, tma_state \in TmaState :
         CallZoneTransition(previous_zone, current_zone, tma_state)

SpecPure == Init /\ [][NextPure]_vars

----------------------------------------------------------------------------
\* Threads running decision cycles on one Grid (grid.rs).  Grid is Sync: its
\* only interior mutability is instrument_grids: Mutex<HashMap<..>>, so several
\* threads may call generate_algo_orders(&self, ..) at once.  A thread's
\* position is the line of process_instrument_signal it is about to run.

Threads == {"t1", "t2"}

\* Bound on the process_instrument_signal calls of one thread
ThreadCalls == 2

\* The inputs of the threads: a price at the SMA value and one above the sell
\* levels next to it, and the two early returns
ConcDataStates ==
    {[price |-> Some(FromInt(100)), sma |-> Some(FromInt(100))],
     [price |-> Some(FromInt(112)), sma |-> Some(FromInt(100))],
     [price |-> Nil, sma |-> Some(FromInt(100))],
     [price |-> Some(FromInt(112)), sma |-> Nil]}

ConcEngineStates(engine_state) ==
    {[k \in DOMAIN engine_state |-> InstrumentState(engine_state[k], d[k])] :
     d \in [DOMAIN engine_state -> ConcDataStates]}

\* The locals of process_instrument_signal before its first statement
NoFrame == [price |-> 0, tma |-> 0, bands |-> [high_band |-> 0, low_band |-> 0], volatility |-> 0, current_zone |-> "BetweenBands", previous_zone |-> "BetweenBands", previous_price |-> 0, tma_state |-> "Sideways", signals |-> <<>>]

IdleThread(list) ==
    [engine_state |-> [k \in DOMAIN list |-> InstrumentState(list[k], [price |-> Nil, sma |-> Nil])],
     k           |-> 0,
     frame       |-> NoFrame,
     buy_orders  |-> <<>>,
     sell_orders |-> <<>>,
     returned    |-> [cancels |-> <<>>, opens |-> <<>>],
     cycles      |-> 0,
     evaluations |-> 0,
     locks       |-> 0]

\* Mutex::lock blocks until no guard is alive
MutexFree_unlocked(holder) == TRUE

MutexFree(holder) == holder = Nil

\* The MutexGuard is a local of process_instrument_signal: it is dropped
\* when the function returns
DropGuard_kept(holder) == holder

DropGuard(holder) == Nil

InitConc ==
    /\ grid = MainGrid
    /\ instrument_grids = <<>>
    /\ \E list \in InstrumentLists :
         /\ state = [k \in DOMAIN list |-> InstrumentState(list[k], [price |-> Nil, sma |-> Nil])]
         /\ threads = [t \in Threads |-> IdleThread(list)]
    /\ pc = [t \in Threads |-> "idle"]
    /\ signals = [k \in DOMAIN state |-> <<>>]
    /\ orders = [cancels |-> <<>>, opens |-> <<>>]
    /\ grid_setup = [k \in DOMAIN state |-> Nil]
    /\ crossing_log = [n \in Names |-> <<>>]
    /\ cycles = 0
    /\ call = Nil
    /\ lock = Nil
    /\ serial = [instrument_grids |-> <<>>, signals |-> [t \in Threads |-> <<>>]]
    /\ sma_state = Nil
    /\ rsi_state = Nil
    /\ vwap_state = Nil
    /\ sizer_state = Nil
    /\ data_state = Nil
    /\ strategy_state = Nil
    /\ sma_data_state = Nil

\* The variables no thread step writes
conc_frame == <<grid, state, signals, orders, grid_setup, cycles, call, indicator_vars, sizer_state, aux_vars>>

\* generate_algo_orders is entered with an engine state: empty order vectors,
\* the loop at its first instrument
EnterGenerateAlgoOrders(t, engine_state) ==
    /\ pc[t] = "idle"
    /\ (threads[t].cycles + 1) * Len(engine_state) <= ThreadCalls
    /\ threads' = [threads EXCEPT ![t] = [@ EXCEPT !.engine_state = engine_state, !.k = 1, !.frame = NoFrame, !.buy_orders = <<>>, !.sell_orders = <<>>]]
    /\ pc' = [pc EXCEPT ![t] = "classify"]
    /\ UNCHANGED <<instrument_grids, crossing_log, lock, serial, conc_frame>>

\* The signals of one instrument are turned into orders and the loop moves on;
\* after the last instrument the call returns
LoopOn(th, sigs) ==
    LET Pushed(next) ==
            IF next.k > Len(next.engine_state)
            THEN [next EXCEPT !.cycles = @ + 1, !.returned = [cancels |-> <<>>, opens |-> next.buy_orders \o next.sell_orders]]
            ELSE next
    IN  Pushed([th EXCEPT !.k = @ + 1, !.frame = NoFrame, !.buy_orders = @ \o BuyOrders(grid, sigs), !.sell_orders = @ \o SellOrders(grid, sigs)])

\* Where the thread is after LoopOn
LoopPc(th) == IF th.k + 1 > Len(th.engine_state) THEN "idle" ELSE "classify"

\* process_instrument_signal up to the lock: the early returns, then tma,
\* bands, volatility and zone from the thread's own inputs
Classify(t) ==
    /\ pc[t] = "classify"
    /\ LET Go(th, data) ==
               IF data.price = Nil \/ data.sma = Nil
               THEN /\ threads' = [threads EXCEPT ![t] = LoopOn(th, <<>>)]
                    /\ pc' = [pc EXCEPT ![t] = LoopPc(th)]
               ELSE LET WithTma(price, tma) ==
                            LET WithBands(bands) ==
                                    [th EXCEPT !.evaluations = @ + 1,
                                        !.frame = [NoFrame EXCEPT !.price = price, !.tma = tma, !.bands = bands,
                                                     !.volatility = calculate_volatility(bands.high_band, bands.low_band, tma),
                                                     !.current_zone = determine_grid_zone(price, bands.high_band, bands.low_band)]]
                            IN  WithBands(calculate_bands(grid, tma))
                    IN  /\ threads' = [threads EXCEPT ![t] = WithTma(data.price[1], calculate_tma(data.sma[1]))]
                        /\ pc' = [pc EXCEPT ![t] = "lock"]
       IN  Go(threads[t], threads[t].engine_state[threads[t].k].data)
    /\ UNCHANGED <<instrument_grids, crossing_log, lock, serial, conc_frame>>

\* let mut instrument_grids = self.instrument_grids.lock().unwrap();
\* serial applies the whole evaluation at once to its own copy of the map
Lock(t) ==
    /\ pc[t] = "lock"
    /\ MutexFree(lock)
    /\ lock' = Some(t)
    /\ threads' = [threads EXCEPT ![t] = [@ EXCEPT !.locks = @ + 1]]
    /\ pc' = [pc EXCEPT ![t] = "entry"]
    /\ LET Eval(instrument_state) == EvaluateInstrument(grid, serial.instrument_grids, instrument_state, instrument_state.data.price[1], instrument_state.data.sma[1])
       IN  \E res \in {Eval(threads[t].engine_state[threads[t].k])} :
               serial' = [instrument_grids |-> res.instrument_grids, signals |-> [serial.signals EXCEPT ![t] = res.signals]]
    /\ UNCHANGED <<instrument_grids, crossing_log, conc_frame>>

\* entry(..).or_insert_with(..), the reads of the previous zone and price, the
\* price history, the trend, and the generation of the levels when a side is empty
Entry(t) ==
    /\ pc[t] = "entry"
    /\ LET Go(th, instrument_key) ==
               LET Found(entry) ==
                       LET Levelled(levels) ==
                               /\ instrument_grids' = MapPut(instrument_grids, instrument_key,
                                      IF NeedsGridLevels(entry)
                                      THEN [entry EXCEPT !.price_history = update_price_history(grid, @, th.frame.price), !.buy_levels = levels.buy_levels, !.sell_levels = levels.sell_levels]
                                      ELSE [entry EXCEPT !.price_history = update_price_history(grid, @, th.frame.price)])
                               /\ threads' = [threads EXCEPT ![t] = [th EXCEPT
                                      !.frame = [@ EXCEPT !.previous_zone = entry.last_grid_zone, !.previous_price = entry.current_price,
                                                   !.tma_state = determine_tma_state(th.frame.price, th.frame.tma, entry.current_price)]]]
                       IN  Levelled(generate_grid_levels(grid, th.frame.price, th.frame.tma, th.frame.volatility))
               IN  Found(IF instrument_key \in DOMAIN instrument_grids
                         THEN instrument_grids[instrument_key]
                         ELSE NewInstrumentGridState(grid, th.frame.price, th.frame.volatility))
       IN  Go(threads[t], threads[t].engine_state[threads[t].k].name)
    /\ pc' = [pc EXCEPT ![t] = "cross"]
    /\ UNCHANGED <<crossing_log, lock, serial, conc_frame>>

\* check_grid_level_crosses and the loop over its result: one signal pushed
\* and one level inserted into filled_levels per crossing
Cross(t) ==
    /\ pc[t] = "cross"
    /\ LET Go(th, instrument_state) ==
               \E level_crosses \in {check_grid_level_crosses(instrument_grids[instrument_state.name], th.frame.price)} :
                   /\ threads' = [threads EXCEPT ![t] = [th EXCEPT
                          !.frame = [@ EXCEPT !.signals = CrossSignals(instrument_state, level_crosses, th.frame.tma, th.frame.bands, th.frame.volatility)]]]
                   /\ instrument_grids' = [instrument_grids EXCEPT ![instrument_state.name] =
                          [@ EXCEPT !.filled_levels = @ \cup {level_crosses[j][1] : j \in 1..Len(level_crosses)}]]
                   /\ crossing_log' = [crossing_log EXCEPT ![instrument_state.name] = @ \o [j \in 1..Len(level_crosses) |-> level_crosses[j][1]]]
       IN  Go(threads[t], threads[t].engine_state[threads[t].k])
    /\ pc' = [pc EXCEPT ![t] = "store"]
    /\ UNCHANGED <<lock, serial, conc_frame>>

\* The fallback signal when no crossing was pushed, then the stores of the
\* price, the zone and the trend
Store(t) ==
    /\ pc[t] = "store"
    /\ LET Go(th, instrument_state) ==
               /\ threads' = [threads EXCEPT ![t] = [th EXCEPT
                      !.frame = [@ EXCEPT !.signals = FallbackSignals(instrument_state, th.frame.signals, th.frame.previous_zone, th.frame.current_zone,
                                                                       th.frame.tma_state, th.frame.price, th.frame.tma, th.frame.bands, th.frame.volatility)]]]
               /\ instrument_grids' = [instrument_grids EXCEPT ![instrument_state.name] =
                      [@ EXCEPT !.current_price = th.frame.price, !.last_grid_zone = th.frame.current_zone, !.last_tma_state = th.frame.tma_state]]
       IN  Go(threads[t], threads[t].engine_state[threads[t].k])
    /\ pc' = [pc EXCEPT ![t] = "unlock"]
    /\ UNCHANGED <<crossing_log, lock, serial, conc_frame>>

\* process_instrument_signal returns its signals: the guard is dropped, and
\* generate_algo_orders builds the orders and moves on
Unlock(t) ==
    /\ pc[t] = "unlock"
    /\ lock' = DropGuard(lock)
    /\ threads' = [threads EXCEPT ![t] = LoopOn(@, @.frame.signals)]
    /\ pc' = [pc EXCEPT ![t] = LoopPc(threads[t])]
    /\ UNCHANGED <<instrument_grids, crossing_log, serial, conc_frame>>

ThreadStep(t) ==
    \/ \E engine_state \in ConcEngineStates(state) : EnterGenerateAlgoOrders(t, engine_state)
    \/ Classify(t)
    \/ Lock(t)
    \/ Entry(t)
    \/ Cross(t)
    \/ Store(t)
    \/ Unlock(t)

NextConc == \E t \in Threads : ThreadStep(t)

SpecConc == InitConc /\ [][NextConc]_vars

\* The positions inside a generate_algo_orders call
Positions == {"classify", "lock", "entry", "cross", "store", "unlock"}

\* The thread is inside a call and not blocked: only Mutex::lock blocks
Runnable(t) == pc[t] \in Positions /\ (pc[t] = "lock" => MutexFree(lock))

\* The thread is run: it leaves its position
Scheduled(t) ==
    /\ Runnable(t)
    /\ \E position \in (Positions \cup {"idle"}) \ {pc[t]} : pc' = [pc EXCEPT ![t] = position]

\* The scheduler runs every thread that stays runnable; the engine need not
\* call generate_algo_orders again
SpecConcFair == SpecConc /\ \A t \in Threads : WF_pc(Scheduled(t))

----------------------------------------------------------------------------
\* SMA (indicators/sma.rs).  sma_state holds the object's fields, the prices
\* pushed since construction or the last reset, and whether a call panicked.

\* Bounds on the period, and on the updates and resets of one behaviour
MaxPeriod == 3

MaxUpdates == 5

MaxResets == 1

\* Prices whose sums divide exactly by every period up to MaxPeriod
SmaPrices == {FromInt(12), FromInt(18), FromInt(30)}

SMA_new(period) == [period |-> period, prices |-> <<>>, current_value |-> Nil]

\* Variant: the oldest price is never evicted
SMA_update_keep_all(s, price) ==
    LET Summed(prices) ==
            IF Len(prices) >= s.period
            THEN IF s.period = 0
                 THEN [sma |-> [s EXCEPT !.prices = prices], panicked |-> TRUE]
                 ELSE [sma |-> [s EXCEPT !.prices = prices, !.current_value = Some(Div(Sum(prices), FromInt(s.period)))], panicked |-> FALSE]
            ELSE [sma |-> [s EXCEPT !.prices = prices], panicked |-> FALSE]
    IN  Summed(Append(s.prices, price))

\* update: the object after the call, and whether the call panicked.
\* Decimal's `/` panics with "Division by zero" for a zero divisor.
SMA_update(s, price) ==
    LET Summed(prices) ==
            IF Len(prices) >= s.period
            THEN IF s.period = 0
                 THEN [sma |-> [s EXCEPT !.prices = prices], panicked |-> TRUE]
                 ELSE [sma |-> [s EXCEPT !.prices = prices, !.current_value = Some(Div(Sum(prices), FromInt(s.period)))], panicked |-> FALSE]
            ELSE [sma |-> [s EXCEPT !.prices = prices], panicked |-> FALSE]
        Pushed(prices) == Summed(IF Len(prices) > s.period THEN Tail(prices) ELSE prices)
    IN  Pushed(Append(s.prices, price))

SMA_value(s) == s.current_value

SMA_is_ready(s) == Len(s.prices) >= s.period

SMA_reset(s) == [s EXCEPT !.prices = <<>>, !.current_value = Nil]

InitSma ==
    /\ \E period \in 0..MaxPeriod :
         sma_state = [sma |-> SMA_new(period), pushed |-> <<>>, resets |-> 0, panicked |-> FALSE]
    /\ rsi_state = Nil
    /\ vwap_state = Nil
    /\ sizer_state = Nil
    /\ data_state = Nil
    /\ strategy_state = Nil
    /\ sma_data_state = Nil
    /\ grid = DefaultGrid
    /\ instrument_grids = <<>>
    /\ state = <<>>
    /\ signals = <<>>
    /\ orders = [cancels |-> <<>>, opens |-> <<>>]
    /\ grid_setup = <<>>
    /\ crossing_log = [n \in Names |-> <<>>]
    /\ cycles = 0
    /\ call = Nil
    /\ lock = Nil
    /\ pc = <<>>
    /\ threads = <<>>
    /\ serial = <<>>

\* The variables the indicator calls leave alone
grid_vars == <<grid, instrument_grids, state, signals, orders, grid_setup, crossing_log, cycles>>

\* sma.update(price); a panic unwinds the caller: no further call is made
SmaUpdate(price) ==
    /\ ~sma_state.panicked
    /\ Len(sma_state.pushed) < MaxUpdates
    /\ \E res \in {SMA_update(sma_state.sma, price)} :
         sma_state' = [sma_state EXCEPT !.sma = res.sma, !.pushed = Append(@, price), !.panicked = res.panicked]
    /\ UNCHANGED <<rsi_state, vwap_state, sizer_state, aux_vars, call, grid_vars, conc_vars>>

\* sma.reset()
SmaReset ==
    /\ ~sma_state.panicked
    /\ sma_state.resets < MaxResets
    /\ sma_state' = [sma_state EXCEPT !.sma = SMA_reset(@), !.pushed = <<>>, !.resets = @ + 1]
    /\ UNCHANGED <<rsi_state, vwap_state, sizer_state, aux_vars, call, grid_vars, conc_vars>>

NextSma ==
    \/ \E price \in SmaPrices : SmaUpdate(price)
    \/ SmaReset

SpecSma == InitSma /\ [][NextSma]_vars

----------------------------------------------------------------------------
\* Windowed RSI (indicators/rsi.rs).  Timestamps count minutes; a queue entry
\* is <<change, timestamp>>.  rsi_state holds the object, the number of
\* update_with_time calls made on it and the arguments of the last one.

\* RSI::new's window: Duration::from_secs(180)
WindowDuration == 3

\* Bounds on the period and on the update_with_time calls of one behaviour
MaxRsiPeriod == 2

MaxRsiCalls == 4

RsiPrices == {FromInt(10), FromInt(11)}

\* The timestamps of the updates, taken in any order
Times == {0, 1, 2, 5, 6}

RSI_new(period) ==
    [period |-> period, gains |-> <<>>, losses |-> <<>>, last_price |-> Nil, avg_gain |-> Nil, avg_loss |-> Nil, last_update |-> Nil, window_duration |-> WindowDuration]

RECURSIVE remove_old_entries(_, _)
\* Pops the front while it is older than the cutoff; stops at the first entry
\* that is not
remove_old_entries(queue, cutoff_time) ==
    IF queue # <<>> /\ Head(queue)[2] < cutoff_time
    THEN remove_old_entries(Tail(queue), cutoff_time)
    ELSE queue

\* The changes of a queue, without their timestamps
Changes(queue) == [i \in DOMAIN queue |-> queue[i][1]]

\* Variant: a duplicate price still records the time of the update
RSI_update_with_time_touch(r, price, timestamp) ==
    IF r.last_price # Nil
    THEN IF r.last_price[1] = price
         THEN [r EXCEPT !.last_update = Some(timestamp)]
         ELSE LET Averaged(gains, losses) ==
                      IF Len(gains) >= r.period
                      THEN [r EXCEPT !.gains = gains, !.losses = losses,
                                     !.avg_gain = Some(Div(Sum(Changes(gains)), FromInt(Len(gains)))),
                                     !.avg_loss = Some(Div(Sum(Changes(losses)), FromInt(Len(losses)))),
                                     !.last_price = Some(price), !.last_update = Some(timestamp)]
                      ELSE [r EXCEPT !.gains = gains, !.losses = losses,
                                     !.last_price = Some(price), !.last_update = Some(timestamp)]
                  Pruned(gains, losses, cutoff_time) ==
                      Averaged(remove_old_entries(gains, cutoff_time), remove_old_entries(losses, cutoff_time))
                  Changed(change) ==
                      IF change > 0
                      THEN Pruned(Append(r.gains, <<change, timestamp>>), Append(r.losses, <<0, timestamp>>), timestamp - r.window_duration)
                      ELSE Pruned(Append(r.gains, <<0, timestamp>>), Append(r.losses, <<0 - change, timestamp>>), timestamp - r.window_duration)
              IN  Changed(price - r.last_price[1])
    ELSE [r EXCEPT !.last_price = Some(price), !.last_update = Some(timestamp)]

\* Variant: the averages divide by the period
RSI_update_with_time_by_period(r, price, timestamp) ==
    IF r.last_price # Nil
    THEN IF r.last_price[1] = price
         THEN r
         ELSE LET Averaged(gains, losses) ==
                      IF Len(gains) >= r.period
                      THEN [r EXCEPT !.gains = gains, !.losses = losses,
                                     !.avg_gain = Some(Div(Sum(Changes(gains)), FromInt(r.period))),
                                     !.avg_loss = Some(Div(Sum(Changes(losses)), FromInt(r.period))),
                                     !.last_price = Some(price), !.last_update = Some(timestamp)]
                      ELSE [r EXCEPT !.gains = gains, !.losses = losses,
                                     !.last_price = Some(price), !.last_update = Some(timestamp)]
                  Pruned(gains, losses, cutoff_time) ==
                      Averaged(remove_old_entries(gains, cutoff_time), remove_old_entries(losses, cutoff_time))
                  Changed(change) ==
                      IF change > 0
                      THEN Pruned(Append(r.gains, <<change, timestamp>>), Append(r.losses, <<0, timestamp>>), timestamp - r.window_duration)
                      ELSE Pruned(Append(r.gains, <<0, timestamp>>), Append(r.losses, <<0 - change, timestamp>>), timestamp - r.window_duration)
              IN  Changed(price - r.last_price[1])
    ELSE [r EXCEPT !.last_price = Some(price), !.last_update = Some(timestamp)]

\* update_with_time
RSI_update_with_time(r, price, timestamp) ==
    IF r.last_price # Nil
    THEN IF r.last_price[1] = price
         THEN r
         ELSE LET Averaged(gains, losses) ==
                      IF Len(gains) >= r.period
                      THEN [r EXCEPT !.gains = gains, !.losses = losses,
                                     !.avg_gain = Some(Div(Sum(Changes(gains)), FromInt(Len(gains)))),
                                     !.avg_loss = Some(Div(Sum(Changes(losses)), FromInt(Len(losses)))),
                                     !.last_price = Some(price), !.last_update = Some(timestamp)]
                      ELSE [r EXCEPT !.gains = gains, !.losses = losses,
                                     !.last_price = Some(price), !.last_update = Some(timestamp)]
                  Pruned(gains, losses, cutoff_time) ==
                      Averaged(remove_old_entries(gains, cutoff_time), remove_old_entries(losses, cutoff_time))
                  Changed(change) ==
                      IF change > 0
                      THEN Pruned(Append(r.gains, <<change, timestamp>>), Append(r.losses, <<0, timestamp>>), timestamp - r.window_duration)
                      ELSE Pruned(Append(r.gains, <<0, timestamp>>), Append(r.losses, <<0 - change, timestamp>>), timestamp - r.window_duration)
              IN  Changed(price - r.last_price[1])
    ELSE [r EXCEPT !.last_price = Some(price), !.last_update = Some(timestamp)]

\* Variant: with no loss in the averages the value is reported as 0
RSI_value_zero(r) ==
    IF r.avg_gain # Nil /\ r.avg_loss # Nil
    THEN IF r.avg_loss[1] = 0
         THEN Some(0)
         ELSE Some(FromInt(100) - Div(FromInt(100), FromInt(1) + Div(r.avg_gain[1], r.avg_loss[1])))
    ELSE Nil

\* value
RSI_value(r) ==
    IF r.avg_gain # Nil /\ r.avg_loss # Nil
    THEN IF r.avg_loss[1] = 0
         THEN Some(FromInt(100))
         ELSE Some(FromInt(100) - Div(FromInt(100), FromInt(1) + Div(r.avg_gain[1], r.avg_loss[1])))
    ELSE Nil

InitRsi ==
    /\ \E period \in 1..MaxRsiPeriod :
         rsi_state = [rsi |-> RSI_new(period), calls |-> 0, last_call |-> Nil]
    /\ sma_state = Nil
    /\ vwap_state = Nil
    /\ sizer_state = Nil
    /\ data_state = Nil
    /\ strategy_state = Nil
    /\ sma_data_state = Nil
    /\ grid = DefaultGrid
    /\ instrument_grids = <<>>
    /\ state = <<>>
    /\ signals = <<>>
    /\ orders = [cancels |-> <<>>, opens |-> <<>>]
    /\ grid_setup = <<>>
    /\ crossing_log = [n \in Names |-> <<>>]
    /\ cycles = 0
    /\ call = Nil
    /\ lock = Nil
    /\ pc = <<>>
    /\ threads = <<>>
    /\ serial = <<>>

\* rsi.update_with_time(price, timestamp)
RsiUpdate(price, timestamp) ==
    /\ rsi_state.calls < MaxRsiCalls
    /\ rsi_state' = [rsi |-> RSI_update_with_time(rsi_state.rsi, price, timestamp), calls |-> rsi_state.calls + 1, last_call |-> Some([price |-> price, timestamp |-> timestamp])]
    /\ UNCHANGED <<sma_state, vwap_state, sizer_state, aux_vars, call, grid_vars, conc_vars>>

NextRsi == \E price \in RsiPrices, timestamp \in Times : RsiUpdate(price, timestamp)

SpecRsi == InitRsi /\ [][NextRsi]_vars

\* The updates of a feed whose timestamps never go back
RsiUpdateInOrder(price, timestamp) ==
    /\ rsi_state.last_call # Nil => timestamp >= rsi_state.last_call[1].timestamp
    /\ RsiUpdate(price, timestamp)

NextRsiInOrder == \E price \in RsiPrices, timestamp \in Times : RsiUpdateInOrder(price, timestamp)

SpecRsiInOrder == InitRsi /\ [][NextRsiInOrder]_vars

----------------------------------------------------------------------------
\* VwapIndicator (indicators/vwap.rs).  Timestamps and reset periods count
\* hours.  vwap_state holds the object and every update made on it since its
\* construction, each with whether it reset the accumulators.

\* Bound on the updates of one behaviour
MaxVwapUpdates == 3

\* A period of two hours, and the zero Duration
ResetPeriods == {0, 2}

VwapPrices == {FromInt(10), FromInt(20)}

\* Trade amounts: two sizes, an empty trade and a negative amount
Volumes == {FromInt(1), FromInt(3), 0, FromInt(0 - 1)}

VwapTimes == {0, 1, 2}

VwapIndicator_new(reset_period) ==
    [price_volume_sum |-> 0, volume_sum |-> 0, trades |-> <<>>, reset_period |-> reset_period, last_reset |-> Nil, current_vwap |-> Nil]

\* signed_duration_since(..).to_std().unwrap_or_default(): a negative
\* duration has no std form and becomes the zero Duration
should_reset(v, timestamp) ==
    IF v.last_reset # Nil
    THEN Max({timestamp - v.last_reset[1], 0}) >= v.reset_period
    ELSE TRUE

VwapIndicator_reset(v, timestamp) ==
    [v EXCEPT !.price_volume_sum = 0, !.volume_sum = 0, !.trades = <<>>, !.current_vwap = Nil, !.last_reset = Some(timestamp)]

\* Variant: the price is accumulated without its volume
VwapIndicator_update_unweighted(v, price, volume, timestamp) ==
    LET Valued(w) ==
            IF w.volume_sum > 0
            THEN [w EXCEPT !.current_vwap = Some(Div(w.price_volume_sum, w.volume_sum))]
            ELSE w
        Added(w) ==
            Valued([w EXCEPT !.trades = Append(@, [price |-> price, volume |-> volume, timestamp |-> timestamp]),
                             !.price_volume_sum = @ + price,
                             !.volume_sum = @ + volume])
    IN  Added(IF should_reset(v, timestamp) THEN VwapIndicator_reset(v, timestamp) ELSE v)

\* update
VwapIndicator_update(v, price, volume, timestamp) ==
    LET Valued(w) ==
            IF w.volume_sum > 0
            THEN [w EXCEPT !.current_vwap = Some(Div(w.price_volume_sum, w.volume_sum))]
            ELSE w
        Added(w) ==
            Valued([w EXCEPT !.trades = Append(@, [price |-> price, volume |-> volume, timestamp |-> timestamp]),
                             !.price_volume_sum = @ + Mul(price, volume),
                             !.volume_sum = @ + volume])
    IN  Added(IF should_reset(v, timestamp) THEN VwapIndicator_reset(v, timestamp) ELSE v)

VwapIndicator_value(v) == v.current_vwap

total_volume(v) == v.volume_sum

trade_count(v) == Len(v.trades)

InitVwap ==
    /\ \E reset_period \in ResetPeriods :
         vwap_state = [vwap |-> VwapIndicator_new(reset_period), updates |-> <<>>]
    /\ sma_state = Nil
    /\ rsi_state = Nil
    /\ sizer_state = Nil
    /\ data_state = Nil
    /\ strategy_state = Nil
    /\ sma_data_state = Nil
    /\ grid = DefaultGrid
    /\ instrument_grids = <<>>
    /\ state = <<>>
    /\ signals = <<>>
    /\ orders = [cancels |-> <<>>, opens |-> <<>>]
    /\ grid_setup = <<>>
    /\ crossing_log = [n \in Names |-> <<>>]
    /\ cycles = 0
    /\ call = Nil
    /\ lock = Nil
    /\ pc = <<>>
    /\ threads = <<>>
    /\ serial = <<>>

\* vwap.update(price, volume, timestamp)
VwapUpdate(price, volume, timestamp) ==
    /\ Len(vwap_state.updates) < MaxVwapUpdates
    /\ vwap_state' = [vwap    |-> VwapIndicator_update(vwap_state.vwap, price, volume, timestamp),
                      updates |-> Append(vwap_state.updates, [price |-> price, volume |-> volume, timestamp |-> timestamp, reset |-> should_reset(vwap_state.vwap, timestamp)])]
    /\ UNCHANGED <<sma_state, rsi_state, sizer_state, aux_vars, call, grid_vars, conc_vars>>

NextVwap == \E price \in VwapPrices, volume \in Volumes, timestamp \in VwapTimes : VwapUpdate(price, volume, timestamp)

SpecVwap == InitVwap /\ [][NextVwap]_vars

----------------------------------------------------------------------------
\* A PositionSizer and its callers (position.rs)

MaxSizerCalls == 4

SizerWallets == {FromInt(1), FromInt(2)}

RiskPercentages == {5, 10}

SizerPrices == {0 - 1, 0, 3, 4, 7}

\* requested: the arguments of the constructor and of the most recent mutators;
\* mutators: the mutators called so far
SizerState(sizer) ==
    [sizer     |-> sizer,
     requested |-> [wallet_size |-> sizer.wallet_size, risk_percentage |-> sizer.risk_percentage],
     mutators  |-> {},
     calls     |-> 0,
     last      |-> Nil]

InitSizer ==
    /\ \E wallet_size \in SizerWallets :
         \/ sizer_state = SizerState(PositionSizer_new(wallet_size))
         \/ \E risk_percentage \in RiskPercentages :
              sizer_state = SizerState(PositionSizer_with_risk(wallet_size, risk_percentage))
    /\ sma_state = Nil
    /\ rsi_state = Nil
    /\ vwap_state = Nil
    /\ data_state = Nil
    /\ strategy_state = Nil
    /\ sma_data_state = Nil
    /\ grid = DefaultGrid
    /\ instrument_grids = <<>>
    /\ state = <<>>
    /\ signals = <<>>
    /\ orders = [cancels |-> <<>>, opens |-> <<>>]
    /\ grid_setup = <<>>
    /\ crossing_log = [n \in Names |-> <<>>]
    /\ cycles = 0
    /\ call = Nil
    /\ lock = Nil
    /\ pc = <<>>
    /\ threads = <<>>
    /\ serial = <<>>

SizerFrame == <<sma_state, rsi_state, vwap_state, call, grid_vars, conc_vars, aux_vars>>

\* sizer.calculate_quantity(price)
CalculateQuantity(price) ==
    /\ sizer_state.calls < MaxSizerCalls
    /\ sizer_state' = [sizer_state EXCEPT
                         !.calls = @ + 1,
                         !.last  = Some([fn |-> "calculate_quantity", arg |-> price,
                                         result |-> calculate_quantity(sizer_state.sizer, price)])]
    /\ UNCHANGED SizerFrame

\* sizer.calculate_position_value(price)
CalculatePositionValue(price) ==
    /\ sizer_state.calls < MaxSizerCalls
    /\ sizer_state' = [sizer_state EXCEPT
                         !.calls = @ + 1,
                         !.last  = Some([fn |-> "calculate_position_value", arg |-> price,
                                         result |-> calculate_position_value(sizer_state.sizer, price)])]
    /\ UNCHANGED SizerFrame

\* sizer.update_wallet_size(new_wallet_size)
UpdateWalletSize(new_wallet_size) ==
    /\ sizer_state.calls < MaxSizerCalls
    /\ sizer_state' = [sizer_state EXCEPT
                         !.sizer = update_wallet_size(@, new_wallet_size),
                         !.requested.wallet_size = new_wallet_size,
                         !.mutators = @ \cup {"update_wallet_size"},
                         !.calls = @ + 1,
                         !.last  = Some([fn |-> "update_wallet_size", arg |-> new_wallet_size, result |-> 0])]
    /\ UNCHANGED SizerFrame

\* sizer.update_risk_percentage(new_risk_percentage)
UpdateRiskPercentage(new_risk_percentage) ==
    /\ sizer_state.calls < MaxSizerCalls
    /\ sizer_state' = [sizer_state EXCEPT
                         !.sizer = update_risk_percentage(@, new_risk_percentage),
                         !.requested.risk_percentage = new_risk_percentage,
                         !.mutators = @ \cup {"update_risk_percentage"},
                         !.calls = @ + 1,
                         !.last  = Some([fn |-> "update_risk_percentage", arg |-> new_risk_percentage, result |-> 0])]
    /\ UNCHANGED SizerFrame

NextSizer ==
    \/ \E price \in SizerPrices : CalculateQuantity(price)
    \/ \E price \in SizerPrices : CalculatePositionValue(price)
    \/ \E new_wallet_size \in SizerWallets : UpdateWalletSize(new_wallet_size)
    \/ \E new_risk_percentage \in RiskPercentages : UpdateRiskPercentage(new_risk_percentage)

SpecSizer == InitSizer /\ [][NextSizer]_vars







----------------------------------------------------------------------------
\* Decision cycles on one instrument until its price history overflows
\* (grid.rs)

MaxHistoryCycles == 52

HistoryInstrument == [key |-> 0, exchange |-> 0, name |-> "btc_usdt"]

HistorySma == FromInt(10)

\* the prices of cycle number n: the first and the last cycles vary
HistoryPrices(n) ==
    IF n < 2 \/ n >= MaxHistoryCycles - 4 THEN {FromInt(10), FromInt(11)} ELSE {FromInt(10)}

InitHistory ==
    /\ grid = DefaultGrid
    /\ instrument_grids = <<>>
    /\ state = <<InstrumentState(HistoryInstrument, [price |-> Nil, sma |-> Nil])>>
    /\ signals = <<<<>>>>
    /\ orders = [cancels |-> <<>>, opens |-> <<>>]
    /\ grid_setup = <<Nil>>
    /\ crossing_log = [n \in Names |-> <<>>]
    /\ cycles = 0
    /\ call = Nil
    /\ lock = Nil
    /\ pc = <<>>
    /\ threads = <<>>
    /\ serial = <<>>
    /\ sma_state = Nil
    /\ rsi_state = Nil
    /\ vwap_state = Nil
    /\ sizer_state = Nil
    /\ data_state = Nil
    /\ strategy_state = Nil
    /\ sma_data_state = Nil

\* One decision cycle: generate_algo_orders(state) with a price and an SMA
\* value for the instrument
HistoryCycle(price) ==
    /\ cycles < MaxHistoryCycles
    /\ LET Returned(engine_state, res) ==
               /\ instrument_grids' = res.instrument_grids
               /\ signals' = res.signals
               /\ orders' = [cancels |-> res.cancels, opens |-> res.opens]
               /\ grid_setup' = res.setups
               /\ state' = engine_state
           Called(engine_state) ==
               Returned(engine_state, generate_algo_orders(grid, instrument_grids, engine_state))
       IN  Called(<<InstrumentState(HistoryInstrument, [price |-> Some(price), sma |-> Some(HistorySma)])>>)
    /\ cycles' = cycles + 1
    /\ UNCHANGED <<grid, crossing_log, call, conc_vars, indicator_vars, sizer_state, aux_vars>>

NextHistory == \E price \in HistoryPrices(cycles) : HistoryCycle(price)

SpecHistory == InitHistory /\ [][NextHistory]_vars





----------------------------------------------------------------------------
\* AlgorithmData and its sample-interval RSI (algorithm/data.rs).  Times are
\* in units of 5 seconds.

MaxDataEvents == 3

MaxDataRsiPeriod == 2

\* Duration::from_secs(10)
DataSampleInterval == 2

\* Duration::from_secs(24 * 60 * 60)
DailyResetPeriod == 17280

DataPrices == {FromInt(10), FromInt(20)}

DataAmounts == {FromInt(3)}

DataTimes == {0, 1, 2, 4}

DataKind == {"Trade", "OrderBookL1", "Candle"}

AccountEventKind == {"Trade", "OrderSnapshot"}

VwapIndicator_daily == VwapIndicator_new(DailyResetPeriod)

SampleRSI_new(period) ==
    [period |-> period, gains |-> <<>>, losses |-> <<>>, last_price |-> Nil, avg_gain |-> Nil, avg_loss |-> Nil, last_update |-> Nil, sample_interval |-> DataSampleInterval]

\* Variant: the queues are not trimmed to the period
SampleRSI_update_with_time_untrimmed(r, price, timestamp) ==
    IF r.last_update # Nil /\ Max({timestamp - r.last_update[1], 0}) < r.sample_interval
    THEN r
    ELSE IF r.last_price # Nil
    THEN LET Averaged(gains, losses) ==
                 IF Len(gains) = r.period
                 THEN [r EXCEPT !.gains = gains, !.losses = losses,
                                !.avg_gain = Some(Div(Sum(gains), FromInt(r.period))),
                                !.avg_loss = Some(Div(Sum(losses), FromInt(r.period))),
                                !.last_price = Some(price), !.last_update = Some(timestamp)]
                 ELSE [r EXCEPT !.gains = gains, !.losses = losses,
                                !.last_price = Some(price), !.last_update = Some(timestamp)]
             Changed(change) ==
                 IF change > 0
                 THEN Averaged(Append(r.gains, change), Append(r.losses, 0))
                 ELSE Averaged(Append(r.gains, 0), Append(r.losses, 0 - change))
         IN  Changed(price - r.last_price[1])
    ELSE [r EXCEPT !.last_price = Some(price), !.last_update = Some(timestamp)]

\* update_with_time; the elapsed time is
\* signed_duration_since(last_update).to_std().unwrap_or_default()
SampleRSI_update_with_time(r, price, timestamp) ==
    IF r.last_update # Nil /\ Max({timestamp - r.last_update[1], 0}) < r.sample_interval
    THEN r
    ELSE IF r.last_price # Nil
    THEN LET Averaged(gains, losses) ==
                 IF Len(gains) = r.period
                 THEN [r EXCEPT !.gains = gains, !.losses = losses,
                                !.avg_gain = Some(Div(Sum(gains), FromInt(r.period))),
                                !.avg_loss = Some(Div(Sum(losses), FromInt(r.period))),
                                !.last_price = Some(price), !.last_update = Some(timestamp)]
                 ELSE [r EXCEPT !.gains = gains, !.losses = losses,
                                !.last_price = Some(price), !.last_update = Some(timestamp)]
             Trimmed(gains, losses) ==
                 IF Len(gains) > r.period
                 THEN Averaged(Tail(gains), Tail(losses))
                 ELSE Averaged(gains, losses)
             Changed(change) ==
                 IF change > 0
                 THEN Trimmed(Append(r.gains, change), Append(r.losses, 0))
                 ELSE Trimmed(Append(r.gains, 0), Append(r.losses, 0 - change))
         IN  Changed(price - r.last_price[1])
    ELSE [r EXCEPT !.last_price = Some(price), !.last_update = Some(timestamp)]

AlgorithmData_new(rsi_period) ==
    [market_data |-> [price |-> Nil], rsi |-> SampleRSI_new(rsi_period), vwap |-> VwapIndicator_daily]

\* DefaultInstrumentMarketData::process of the barter crate, as far as
\* price() shows it: a trade or an order book event may replace the price
\* (taken), any other event leaves it
MarketData_process(market_data, event, taken) ==
    IF event.kind \in {"Trade", "OrderBookL1"} /\ taken
    THEN [market_data EXCEPT !.price = Some(event.price)]
    ELSE market_data

\* Variant: every market event updates the VWAP
AlgorithmData_process_any_kind(d, event, taken) ==
    LET WithVwap(e) ==
            [e EXCEPT !.vwap = VwapIndicator_update(@, event.price, event.amount, event.time_received)]
        WithRsi(e) ==
            WithVwap(IF e.market_data.price # Nil
                     THEN [e EXCEPT !.rsi = SampleRSI_update_with_time(@, e.market_data.price[1], event.time_received)]
                     ELSE e)
    IN  WithRsi([d EXCEPT !.market_data = MarketData_process(@, event, taken)])

\* Processor<&MarketEvent>::process
AlgorithmData_process(d, event, taken) ==
    LET WithVwap(e) ==
            IF event.kind = "Trade"
            THEN [e EXCEPT !.vwap = VwapIndicator_update(@, event.price, event.amount, event.time_received)]
            ELSE e
        WithRsi(e) ==
            WithVwap(IF e.market_data.price # Nil
                     THEN [e EXCEPT !.rsi = SampleRSI_update_with_time(@, e.market_data.price[1], event.time_received)]
                     ELSE e)
    IN  WithRsi([d EXCEPT !.market_data = MarketData_process(@, event, taken)])

\* Processor<&AccountEvent>::process
AlgorithmData_process_account(d, event) == d

MarketEvents ==
    [kind : DataKind, price : DataPrices, amount : DataAmounts, time_received : DataTimes]

InitData ==
    /\ \E rsi_period \in 1..MaxDataRsiPeriod :
         data_state = [data |-> AlgorithmData_new(rsi_period), events |-> 0, last |-> Nil]
    /\ strategy_state = Nil
    /\ sma_data_state = Nil
    /\ sma_state = Nil
    /\ rsi_state = Nil
    /\ vwap_state = Nil
    /\ sizer_state = Nil
    /\ grid = DefaultGrid
    /\ instrument_grids = <<>>
    /\ state = <<>>
    /\ signals = <<>>
    /\ orders = [cancels |-> <<>>, opens |-> <<>>]
    /\ grid_setup = <<>>
    /\ crossing_log = [n \in Names |-> <<>>]
    /\ cycles = 0
    /\ call = Nil
    /\ lock = Nil
    /\ pc = <<>>
    /\ threads = <<>>
    /\ serial = <<>>

DataFrame == <<strategy_state, sma_data_state, indicator_vars, sizer_state, call, grid_vars, conc_vars>>

\* data.process(&market_event)
ProcessMarketEvent(event, taken) ==
    /\ data_state.events < MaxDataEvents
    /\ data_state' = [data   |-> AlgorithmData_process(data_state.data, event, taken),
                      events |-> data_state.events + 1,
                      last   |-> Some([market |-> TRUE, event |-> event])]
    /\ UNCHANGED DataFrame

\* data.process(&account_event)
ProcessAccountEvent(kind) ==
    /\ data_state.events < MaxDataEvents
    /\ data_state' = [data   |-> AlgorithmData_process_account(data_state.data, [kind |-> kind]),
                      events |-> data_state.events + 1,
                      last   |-> Some([market |-> FALSE, event |-> [kind |-> kind]])]
    /\ UNCHANGED DataFrame

NextData ==
    \/ \E event \in MarketEvents, taken \in BOOLEAN : ProcessMarketEvent(event, taken)
    \/ \E kind \in AccountEventKind : ProcessAccountEvent(kind)

SpecData == InitData /\ [][NextData]_vars



----------------------------------------------------------------------------
\* The Vwap strategy (algorithm/vwap.rs)

MaxStrategyCalls == 4

RsiState == {"Neutral", "Overbought", "Oversold"}

VwapState == {"AboveVwap", "BelowVwap", "AtVwap"}

\* dec!(0.001)
VWAP_THRESHOLD == 1

Vwap_new(wallet_size) ==
    [last_rsi_state  |-> <<>>,
     last_rsi_value  |-> <<>>,
     last_vwap_state |-> <<>>,
     position_sizer  |-> PositionSizer_new(wallet_size)]

determine_rsi_state(rsi) ==
    IF rsi > FromInt(80) THEN "Overbought"
    ELSE IF rsi < FromInt(20) THEN "Oversold"
    ELSE "Neutral"

Abs(x) == IF x < 0 THEN 0 - x ELSE x

determine_vwap_state(price, vwap) ==
    LET deviation == Div(Abs(price - vwap), vwap)
    IN  IF deviation <= VWAP_THRESHOLD THEN "AtVwap"
        ELSE IF price > vwap THEN "AboveVwap"
        ELSE "BelowVwap"

\* Variant: any change of the RSI state signals
should_generate_rsi_signal_any_change(previous_state, current_state) ==
    previous_state # current_state

should_generate_rsi_signal(previous_state, current_state) ==
    \/ previous_state = "Neutral" /\ current_state = "Overbought"
    \/ previous_state = "Neutral" /\ current_state = "Oversold"

should_generate_vwap_signal(previous_state, current_state) ==
    \/ previous_state = "BelowVwap" /\ current_state = "AboveVwap"
    \/ previous_state = "AtVwap" /\ current_state = "AboveVwap"
    \/ previous_state = "AboveVwap" /\ current_state = "BelowVwap"
    \/ previous_state = "AtVwap" /\ current_state = "BelowVwap"

get_vwap_signal_type(previous_state, current_state) ==
    IF previous_state \in {"BelowVwap", "AtVwap"} /\ current_state = "AboveVwap" THEN "Buy"
    ELSE IF previous_state \in {"AboveVwap", "AtVwap"} /\ current_state = "BelowVwap" THEN "Sell"
    ELSE "None"

\* map.get(key).cloned().unwrap_or(default)
GetOr(map, key, default) == IF key \in DOMAIN map THEN map[key] ELSE default

\* Vwap::process_instrument_signal: the signal returned, if any, and the
\* strategy afterwards.  rsi_signal and vwap_signal are Nil or Some of a
\* signal type.
Vwap_process_instrument_signal(v, instrument_state) ==
    IF instrument_state.data.vwap = Nil \/ instrument_state.data.rsi = Nil
    THEN [signal |-> Nil, strategy |-> v]
    ELSE IF instrument_state.data.price = Nil
    THEN [signal |-> Nil, strategy |-> v]
    ELSE LET price == instrument_state.data.price[1]
             rsi   == instrument_state.data.rsi[1]
             vwap  == instrument_state.data.vwap[1]
             instrument_key == instrument_state.name
             Final(previous_rsi, rsi_signal, vwap_signal) ==
                 LET final_signal ==
                         IF rsi_signal # Nil /\ vwap_signal # Nil
                         THEN IF rsi_signal[1] = vwap_signal[1]
                              THEN Some(<<rsi_signal[1], "COMBINED">>)
                              ELSE Some(<<rsi_signal[1], "RSI">>)
                         ELSE IF rsi_signal # Nil THEN Some(<<rsi_signal[1], "RSI">>)
                         ELSE IF vwap_signal # Nil THEN Some(<<vwap_signal[1], "VWAP">>)
                         ELSE Nil
                 IN  IF final_signal # Nil
                     THEN Some([signal_type      |-> final_signal[1][1],
                                instrument_key   |-> instrument_key,
                                instrument_index |-> instrument_state.key,
                                exchange_index   |-> instrument_state.exchange,
                                price            |-> price,
                                vwap             |-> vwap,
                                rsi              |-> rsi,
                                previous_rsi     |-> previous_rsi,
                                signal_source    |-> final_signal[1][2]])
                     ELSE Nil
             Decided(current_rsi_state, current_vwap_state, previous_rsi_state, previous_rsi, previous_vwap_state) ==
                 [signal |->
                     Final(previous_rsi,
                           IF should_generate_rsi_signal(previous_rsi_state, current_rsi_state)
                           THEN IF current_rsi_state = "Overbought" THEN Some("Sell")
                                ELSE IF current_rsi_state = "Oversold" THEN Some("Buy")
                                ELSE Nil
                           ELSE Nil,
                           IF should_generate_vwap_signal(previous_vwap_state, current_vwap_state)
                           THEN IF get_vwap_signal_type(previous_vwap_state, current_vwap_state) = "None"
                                THEN Nil
                                ELSE Some(get_vwap_signal_type(previous_vwap_state, current_vwap_state))
                           ELSE Nil),
                  strategy |->
                     [v EXCEPT !.last_rsi_state  = MapPut(@, instrument_key, current_rsi_state),
                               !.last_rsi_value  = MapPut(@, instrument_key, rsi),
                               !.last_vwap_state = MapPut(@, instrument_key, current_vwap_state)]]
         IN  Decided(determine_rsi_state(rsi), determine_vwap_state(price, vwap),
                     GetOr(v.last_rsi_state, instrument_key, "Neutral"),
                     GetOr(v.last_rsi_value, instrument_key, FromInt(50)),
                     GetOr(v.last_vwap_state, instrument_key, "AtVwap"))

Vwap_ID == "vwap"

Vwap_create_order(v, signal, side) ==
    [key   |-> [exchange |-> signal.exchange_index, instrument |-> signal.instrument_index,
                strategy |-> Vwap_ID],
     state |-> [side |-> side, price |-> signal.price,
                quantity |-> calculate_quantity(v.position_sizer, signal.price),
                kind |-> "Limit", time_in_force |-> "GoodUntilEndOfDay"]]

RECURSIVE Vwap_ScanInstruments(_, _, _)
\* the loop of generate_algo_orders from instrument k on
Vwap_ScanInstruments(engine_state, k, acc) ==
    IF k > Len(engine_state) THEN acc
    ELSE LET Pushed(res) ==
                 [strategy    |-> res.strategy,
                  signals     |-> Append(acc.signals, res.signal),
                  buy_orders  |-> IF res.signal # Nil /\ res.signal[1].signal_type = "Buy"
                                  THEN Append(acc.buy_orders, Vwap_create_order(acc.strategy, res.signal[1], "Buy"))
                                  ELSE acc.buy_orders,
                  sell_orders |-> IF res.signal # Nil /\ res.signal[1].signal_type = "Sell"
                                  THEN Append(acc.sell_orders, Vwap_create_order(acc.strategy, res.signal[1], "Sell"))
                                  ELSE acc.sell_orders]
         IN  Vwap_ScanInstruments(engine_state, k + 1,
                 Pushed(Vwap_process_instrument_signal(acc.strategy, engine_state[k])))

Vwap_generate_algo_orders(v, engine_state) ==
    LET Result(scan) ==
            [strategy |-> scan.strategy,
             signals  |-> scan.signals,
             cancels  |-> <<>>,
             opens    |-> scan.buy_orders \o scan.sell_orders]
    IN  Result(Vwap_ScanInstruments(engine_state, 1,
                   [strategy |-> v, signals |-> <<>>, buy_orders |-> <<>>, sell_orders |-> <<>>]))

\* what the strategy reads of an instrument's AlgorithmData: price(),
\* rsi.value() and vwap.value()
StrategyDatas ==
    {[price |-> Some(p), rsi |-> Some(r), vwap |-> Some(FromInt(100))] :
        p \in {FromInt(98), FromInt(102)}, r \in {FromInt(10), FromInt(50), FromInt(80), FromInt(90)}}
    \cup {[price |-> Nil, rsi |-> Some(FromInt(90)), vwap |-> Some(FromInt(100))],
          [price |-> Some(FromInt(100)), rsi |-> Nil, vwap |-> Some(FromInt(100))],
          [price |-> Some(FromInt(100)), rsi |-> Some(FromInt(10)), vwap |-> Nil]}

StrategyEngineStates(instruments) ==
    {[k \in DOMAIN instruments |-> InstrumentState(instruments[k], d[k])] :
     d \in [DOMAIN instruments -> StrategyDatas]}

\* log: per instrument name, the RSI state and the signal of each cycle
\* that evaluated the instrument
InitStrategy ==
    /\ \E list \in InstrumentLists :
         strategy_state = [vwap        |-> Vwap_new(DefaultWalletSize),
                           instruments |-> list,
                           cycles      |-> 0,
                           last        |-> Nil,
                           log         |-> [n \in Names |-> <<>>]]
    /\ data_state = Nil
    /\ sma_data_state = Nil
    /\ sma_state = Nil
    /\ rsi_state = Nil
    /\ vwap_state = Nil
    /\ sizer_state = Nil
    /\ grid = DefaultGrid
    /\ instrument_grids = <<>>
    /\ state = <<>>
    /\ signals = <<>>
    /\ orders = [cancels |-> <<>>, opens |-> <<>>]
    /\ grid_setup = <<>>
    /\ crossing_log = [n \in Names |-> <<>>]
    /\ cycles = 0
    /\ call = Nil
    /\ lock = Nil
    /\ pc = <<>>
    /\ threads = <<>>
    /\ serial = <<>>

StrategyEvaluated(instrument_state) ==
    /\ instrument_state.data.vwap # Nil
    /\ instrument_state.data.rsi # Nil
    /\ instrument_state.data.price # Nil

RECURSIVE StrategyLog(_, _, _, _)
StrategyLog(log, engine_state, sigs, k) ==
    IF k > Len(engine_state) THEN log
    ELSE StrategyLog(
            IF StrategyEvaluated(engine_state[k])
            THEN [log EXCEPT ![engine_state[k].name] =
                     Append(@, [rsi_state |-> determine_rsi_state(engine_state[k].data.rsi[1]),
                                signal    |-> sigs[k]])]
            ELSE log,
            engine_state, sigs, k + 1)

StrategyFrame == <<data_state, sma_data_state, indicator_vars, sizer_state, call, grid_vars, conc_vars>>

\* One decision cycle of the Vwap strategy
VwapGenerateAlgoOrders(engine_state) ==
    /\ (strategy_state.cycles + 1) * Len(engine_state) <= MaxStrategyCalls
    /\ LET Returned(res) ==
               strategy_state' = [strategy_state EXCEPT
                   !.vwap   = res.strategy,
                   !.cycles = @ + 1,
                   !.last   = Some([engine_state |-> engine_state, signals |-> res.signals,
                                    cancels |-> res.cancels, opens |-> res.opens]),
                   !.log    = StrategyLog(@, engine_state, res.signals, 1)]
       IN  Returned(Vwap_generate_algo_orders(strategy_state.vwap, engine_state))
    /\ UNCHANGED StrategyFrame

NextStrategy ==
    \E engine_state \in StrategyEngineStates(strategy_state.instruments) :
        VwapGenerateAlgoOrders(engine_state)

SpecStrategy == InitStrategy /\ [][NextStrategy]_vars









----------------------------------------------------------------------------
\* SmaInstrumentData and the SMA indicator side by side (algorithms/sma.rs,
\* algorithm/indicators/sma.rs)
\*
\* sma_data_state holds one SmaInstrumentData, one SMA constructed with the
\* same period, and the closes fed to both since construction.

\* Bound on the closes of one behaviour
MaxSmaDataUpdates == 7

SMA_PERIOD == 5

\* Closes whose sums of SMA_PERIOD divide exactly
SmaDataCloses == {FromInt(10), FromInt(15), FromInt(25)}

SmaInstrumentData_new == [closes |-> <<>>]

\* Variant: the front is popped only once the queue exceeds the period
SmaInstrumentData_update_late_pop(d, close) ==
    [closes |-> Append(IF Len(d.closes) > SMA_PERIOD THEN Tail(d.closes) ELSE d.closes, close)]

SmaInstrumentData_update(d, close) ==
    [closes |-> Append(IF Len(d.closes) = SMA_PERIOD THEN Tail(d.closes) ELSE d.closes, close)]

SmaInstrumentData_sma(d) ==
    IF Len(d.closes) < SMA_PERIOD
    THEN Nil
    ELSE Some(Div(Sum(d.closes), FromInt(SMA_PERIOD)))

SmaInstrumentData_last_close(d) ==
    IF d.closes = <<>> THEN Nil ELSE Some(d.closes[Len(d.closes)])

InitSmaData ==
    /\ sma_data_state = [instrument |-> SmaInstrumentData_new,
                         sma        |-> SMA_new(SMA_PERIOD),
                         closes     |-> <<>>]
    /\ data_state = Nil
    /\ strategy_state = Nil
    /\ sma_state = Nil
    /\ rsi_state = Nil
    /\ vwap_state = Nil
    /\ sizer_state = Nil
    /\ grid = DefaultGrid
    /\ instrument_grids = <<>>
    /\ state = <<>>
    /\ signals = <<>>
    /\ orders = [cancels |-> <<>>, opens |-> <<>>]
    /\ grid_setup = <<>>
    /\ crossing_log = [n \in Names |-> <<>>]
    /\ cycles = 0
    /\ call = Nil
    /\ lock = Nil
    /\ pc = <<>>
    /\ threads = <<>>
    /\ serial = <<>>

SmaDataFrame == <<data_state, strategy_state, indicator_vars, sizer_state, call, grid_vars, conc_vars>>

\* instrument.update(close); sma.update(close)
SmaDataUpdate(close) ==
    /\ Len(sma_data_state.closes) < MaxSmaDataUpdates
    /\ sma_data_state' =
         [instrument |-> SmaInstrumentData_update(sma_data_state.instrument, close),
          sma        |-> SMA_update(sma_data_state.sma, close).sma,
          closes     |-> Append(sma_data_state.closes, close)]
    /\ UNCHANGED SmaDataFrame

NextSmaData == \E close \in SmaDataCloses : SmaDataUpdate(close)

SpecSmaData == InitSmaData /\ [][NextSmaData]_vars

----------------------------------------------------------------------------
\* Properties

\* The instrument was evaluated: both its price and its SMA value are defined
Evaluated(instrument_state) ==
    instrument_state.data.price # Nil /\ instrument_state.data.sma # Nil

\* The crossing signals among sigs, in order
Crossings(sigs) == SelectSeq(sigs, LAMBDA s : s.grid_level # Nil)

\* The fallback signals among sigs, in order
Fallbacks(sigs) == SelectSeq(sigs, LAMBDA s : s.grid_level = Nil)

\* The price the instrument had before the last evaluated cycle, per its history
PreviousPrice(grid_state) ==
    grid_state.price_history[Len(grid_state.price_history) - 1]

\* C1: over any sequence of decision cycles, each grid level of an instrument
\* is the price of at most one crossing signal: a level that has fired is
\* never signalled again, however often the price crosses it later.
C1_LevelFiresOnce ==
    \A n \in Names :
        \A a, b \in DOMAIN crossing_log[n] :
            crossing_log[n][a] = crossing_log[n][b] => a = b

\* A cycle whose prices cross an already filled sell level, with no signal for it
C1_Recrossed ==
    \E k \in DOMAIN state :
        /\ Evaluated(state[k])
        /\ LET grid_state == instrument_grids[state[k].name]
           IN  \E l \in grid_state.sell_levels \cap grid_state.filled_levels :
                  /\ PreviousPrice(grid_state) < l
                  /\ grid_state.current_price >= l
                  /\ l \notin Range(CrossingLevels(signals[k]))
                  /\ l \in Range(crossing_log[state[k].name])

\* C2: in a cycle of an instrument that has a stored previous price, a Buy
\* crossing signal at buy level L is emitted iff L is unfilled and
\* previous_price > L >= current_price, a Sell crossing signal at sell level L
\* iff L is unfilled and previous_price < L <= current_price, and every such
\* level gets exactly one signal, priced at the level.
C2_CrossingIff ==
    [][cycles' = cycles + 1 =>
        \A k \in DOMAIN state' :
            (Evaluated(state'[k]) /\ state'[k].name \in DOMAIN instrument_grids) =>
                LET before         == instrument_grids[state'[k].name]
                    after          == instrument_grids'[state'[k].name]
                    previous_price == before.current_price
                    current_price  == state'[k].data.price[1]
                    expected ==
                        {<<"Buy", l>> : l \in {b \in after.buy_levels :
                            /\ b \notin before.filled_levels
                            /\ previous_price > b
                            /\ current_price <= b}}
                        \cup
                        {<<"Sell", l>> : l \in {b \in after.sell_levels :
                            /\ b \notin before.filled_levels
                            /\ previous_price < b
                            /\ current_price >= b}}
                    crossings == Crossings(signals'[k])
                IN  /\ {<<c.signal_type, c.grid_level[1]>> : c \in Range(crossings)} = expected
                    /\ Len(crossings) = Cardinality(expected)
                    /\ \A j \in DOMAIN crossings : crossings[j].price = crossings[j].grid_level[1]
    ]_vars

\* A cycle that jumped over several levels at once and landed exactly on one
C2_SeveralLevels ==
    \E k \in DOMAIN state :
        /\ Evaluated(state[k])
        /\ Len(Crossings(signals[k])) >= 2
        /\ \E j \in DOMAIN signals[k] : signals[k][j].grid_level = state[k].data.price

C4_GeneratedLevels ==
    \A k \in DOMAIN state :
        grid_setup[k] # Nil =>
            LET p   == grid_setup[k][1].price
                s   == calculate_grid_spacing(grid, p, grid_setup[k][1].volatility)
                max == grid.max_grid_levels
                grid_state == instrument_grids[state[k].name]
            IN  /\ \A l \in grid_state.sell_levels : \E i \in 1..max : l = p + s * i
                /\ \A i \in 1..max : p + s * i \in grid_state.sell_levels
                /\ \A l \in grid_state.buy_levels : \E i \in 1..max : l = p - s * i /\ l > 0
                /\ \A i \in 1..max : p - s * i > 0 => p - s * i \in grid_state.buy_levels
                /\ (p > 0 /\ s > 0) =>
                      /\ \A l \in grid_state.buy_levels : 0 < l /\ l < p
                      /\ \A l \in grid_state.sell_levels : l > p
                      /\ Cardinality(grid_state.sell_levels) = max

\* A generation that discarded some non-positive buy levels and kept others
C4_DiscardedLevels ==
    \E k \in DOMAIN state :
        /\ grid_setup[k] # Nil
        /\ grid_setup[k][1].price > 0
        /\ instrument_grids[state[k].name].buy_levels # {}
        /\ Cardinality(instrument_grids[state[k].name].buy_levels) < grid.max_grid_levels

\* C5: a cycle that emits a level-crossing signal for an instrument emits no
\* zone-transition signal for it, and a cycle emits at most one zone-transition
\* signal per instrument.
C5_FallbackOnlyAlone ==
    \A k \in DOMAIN state :
        /\ Len(Fallbacks(signals[k])) <= 1
        /\ Crossings(signals[k]) # <<>> => Fallbacks(signals[k]) = <<>>

\* A cycle with a crossing whose zone transition is one of the signalling ones
C5_CrossingOnTransition ==
    \E k \in DOMAIN state :
        /\ Evaluated(state[k])
        /\ Crossings(signals[k]) # <<>>
        /\ LET grid_state == instrument_grids[state[k].name]
               bands == calculate_bands(grid, calculate_tma(state[k].data.sma[1]))
           IN  should_generate_grid_signal(
                   determine_grid_zone(PreviousPrice(grid_state),
                                       bands.high_band, bands.low_band),
                   grid_state.last_grid_zone, grid_state.last_tma_state)

\* The zone transitions of the fallback table
BuyTransitions ==
    {<<"BelowLowBand", "BetweenBands", t>> : t \in TmaState}
        \cup {<<"BetweenBands", "BelowLowBand", "BullishTrend">>}

SellTransitions ==
    {<<"AboveHighBand", "BetweenBands", t>> : t \in TmaState}
        \cup {<<"BetweenBands", "AboveHighBand", "BearishTrend">>}

\* C6: for every (previous_zone, current_zone, trend) the fallback signal is
\* Buy on the two buy rows of the table, Sell on the two sell rows and None on
\* every other triple, and should_generate_grid_signal is true exactly where
\* get_grid_signal_type is not None.
C6_FallbackTable ==
    (call # Nil /\ call[1].fn = "zone_transition") =>
        /\ call[1].result = "Buy" <=> call[1].args \in BuyTransitions
        /\ call[1].result = "Sell" <=> call[1].args \in SellTransitions
        /\ call[1].result = "None" <=> call[1].args \notin BuyTransitions \cup SellTransitions
        /\ call[1].should <=> call[1].result # "None"

\* The table's example of a transition that needs the trend and does not get it
C6_SidewaysRally ==
    /\ call # Nil
    /\ call[1].fn = "zone_transition"
    /\ call[1].args = <<"BetweenBands", "AboveHighBand", "Sideways">>
    /\ call[1].result = "None"
    /\ ~call[1].should

\* C7: the trend is BullishTrend if price > tma and previous_price > tma,
\* BearishTrend if price < tma and previous_price < tma, and Sideways in every
\* other case, including when price or previous_price equals tma.
C7_TrendBySides ==
    (call # Nil /\ call[1].fn = "determine_tma_state") =>
        LET price          == call[1].args[1]
            tma            == call[1].args[2]
            previous_price == call[1].args[3]
        IN  call[1].result =
                IF price > tma /\ previous_price > tma THEN "BullishTrend"
                ELSE IF price < tma /\ previous_price < tma THEN "BearishTrend"
                ELSE "Sideways"

\* C8: when an instrument has no market price or no SMA value, a cycle emits
\* no signal and no order for it and neither creates nor modifies its entry in
\* the grid-state map.
C8_SkippedInstrumentUntouched ==
    [][cycles' = cycles + 1 =>
        \A k \in DOMAIN state' :
            ~Evaluated(state'[k]) =>
                LET n == state'[k].name
                IN  /\ signals'[k] = <<>>
                    /\ grid_setup'[k] = Nil
                    /\ \A j \in DOMAIN orders'.opens :
                          orders'.opens[j].key.instrument # state'[k].key
                    /\ n \in DOMAIN instrument_grids' <=> n \in DOMAIN instrument_grids
                    /\ n \in DOMAIN instrument_grids =>
                          instrument_grids'[n] = instrument_grids[n]
                    /\ crossing_log'[n] = crossing_log[n]
    ]_vars

\* A cycle that skipped an instrument which has a price but no SMA value,
\* while its entry exists and stores another price
C8_SkippedWithPrice ==
    \E k \in DOMAIN state :
        /\ cycles > 0
        /\ state[k].data.price # Nil
        /\ state[k].data.sma = Nil
        /\ state[k].name \in DOMAIN instrument_grids
        /\ state[k].data.price[1] # instrument_grids[state[k].name].current_price

\* q, in units of 10^-8, is n/d rounded to 8 decimal places
RoundedToDp8(q, n, d) ==
    LET a == q \div 10000
        b == q % 10000
        e == (a * d - n * 10000) * 10000 + b * d
    IN  /\ 2 * e <= d
        /\ 2 * e >= -d
        /\ (2 * e = d \/ 2 * e = -d) => q % 2 = 0

\* C9: every order of the Grid strategy is a Limit order, good until the end
\* of the day, tagged with the grid strategy id; its side is its signal's side,
\* its price the grid level for a crossing signal and the market price for a
\* fallback signal, and its quantity calculate_quantity(price), which is
\* wallet_size * risk_percentage / price rounded to 8 decimal places.
C9_OrderFromSignal ==
    \A j \in DOMAIN orders.opens :
        \E k \in DOMAIN state :
            \E i \in DOMAIN signals[k] :
                LET order  == orders.opens[j]
                    signal == signals[k][i]
                    sizer  == grid.position_sizer
                IN  /\ order.key = [exchange |-> state[k].exchange,
                                    instrument |-> state[k].key,
                                    strategy |-> "grid", cid |-> "default"]
                    /\ order.state.kind = "Limit"
                    /\ order.state.time_in_force = "GoodUntilEndOfDay"
                    /\ order.state.side = signal.signal_type
                    /\ order.state.price = IF signal.grid_level # Nil
                                           THEN signal.grid_level[1]
                                           ELSE state[k].data.price[1]
                    /\ order.state.quantity = calculate_quantity(sizer, order.state.price)
                    /\ order.state.price > 0
                    /\ RoundedToDp8(order.state.quantity,
                                    Mul(sizer.wallet_size, sizer.risk_percentage),
                                    order.state.price)

\* A cycle with an order at a grid level away from the market price and an
\* order at the market price from a fallback signal
C9_LevelAndMarketOrders ==
    /\ \E k \in DOMAIN state : \E i \in DOMAIN signals[k] :
          /\ signals[k][i].grid_level # Nil
          /\ signals[k][i].price # state[k].data.price[1]
          /\ \E j \in DOMAIN orders.opens :
                /\ orders.opens[j].key.instrument = state[k].key
                /\ orders.opens[j].state.price = signals[k][i].price
    /\ \E k \in DOMAIN state : \E i \in DOMAIN signals[k] :
          /\ signals[k][i].grid_level = Nil
          /\ \E j \in DOMAIN orders.opens :
                /\ orders.opens[j].key.instrument = state[k].key
                /\ orders.opens[j].state.price = state[k].data.price[1]
                /\ orders.opens[j].state.side = "Sell"

\* The signals of the last cycle, each as <<instrument, side, price>>
SignalKeys ==
    UNION {{<<signals[k][i].instrument_index, signals[k][i].signal_type,
              signals[k][i].price>> : i \in DOMAIN signals[k]} : k \in DOMAIN state}

RECURSIVE SignalCount(_)
\* The number of signals the last cycle emitted for the instruments 1..k
SignalCount(k) == IF k = 0 THEN 0 ELSE Len(signals[k]) + SignalCount(k - 1)

\* C10: generate_algo_orders returns no cancellation and exactly one
\* open-order request per emitted Buy or Sell signal; no order has side None.
C10_OneOrderPerSignal ==
    /\ orders.cancels = <<>>
    /\ Len(orders.opens) = SignalCount(Len(state))
    /\ {<<orders.opens[j].key.instrument, orders.opens[j].state.side,
          orders.opens[j].state.price>> : j \in DOMAIN orders.opens} = SignalKeys
    /\ \A k \in DOMAIN state : \A i \in DOMAIN signals[k] :
          signals[k][i].signal_type \in {"Buy", "Sell"}

\* A cycle that emitted a Sell for the first instrument and Buys for the second
C10_BothSides ==
    /\ Len(state) = 2
    /\ signals[1] # <<>>
    /\ Len(signals[2]) >= 2
    /\ signals[1][1].signal_type = "Sell"
    /\ signals[2][1].signal_type = "Buy"
    /\ Len(orders.opens) >= 3

----------------------------------------------------------------------------
\* Properties of concurrent decision cycles

\* The threads between the lock and the return of process_instrument_signal
InCriticalSection == {t \in Threads : pc[t] \in {"entry", "cross", "store", "unlock"}}

NoDuplicates(s) == \A i, j \in DOMAIN s : s[i] = s[j] => i = j

\* C11: concurrent decision cycles on one Grid are equivalent to the same
\* cycles run one at a time in the order they took the map lock: whenever the
\* lock is free the map equals the map of the serial run, every cycle returns
\* the signals the serial run gives it, at most one thread is between the
\* lock and the return, and no level is signalled as crossed twice.
C11_SerialOrder ==
    /\ Cardinality(InCriticalSection) <= 1
    /\ lock = Nil => instrument_grids = serial.instrument_grids
    /\ \A t \in Threads :
         pc[t] = "unlock" =>
            /\ threads[t].frame.signals = serial.signals[t]
            /\ instrument_grids = serial.instrument_grids
    /\ \A n \in Names : NoDuplicates(crossing_log[n])

\* Two cycles race on one instrument with the same price: one has pushed its
\* crossing signals while the other waits for the lock
C11_RacingCycles ==
    \E t, u \in Threads :
        /\ pc[t] = "lock"
        /\ pc[u] = "store"
        /\ threads[u].frame.signals # <<>>
        /\ threads[t].engine_state[threads[t].k].name = threads[u].engine_state[threads[u].k].name
        /\ threads[t].frame.price = threads[u].frame.price

\* A thread holds the guard exactly between the lock and the return, and has
\* locked once per instrument it evaluated
LockDiscipline ==
    \A t \in Threads :
        /\ lock = Some(t) <=> t \in InCriticalSection
        /\ threads[t].locks = IF pc[t] = "lock" THEN threads[t].evaluations - 1 ELSE threads[t].evaluations

\* C12: a decision cycle takes the map lock once per evaluated instrument,
\* never while it holds it, and has released it when it moves to the next
\* instrument; every decision cycle that was entered eventually returns.
C12_SingleLockScope ==
    /\ []LockDiscipline
    /\ \A t \in Threads : (pc[t] # "idle") ~> (pc[t] = "idle")

\* A thread that evaluated and released its first instrument waits for the
\* lock of its second one, which another thread holds
C12_Contended ==
    \E t, u \in Threads :
        /\ pc[t] = "lock"
        /\ threads[t].k = 2
        /\ threads[t].locks = 1
        /\ lock = Some(u)

----------------------------------------------------------------------------
\* Properties of the SMA

\* The last n elements of s
LastN(s, n) == SubSeq(s, Len(s) - n + 1, Len(s))

C14_ReadyIffValue ==
    /\ Len(sma_state.sma.prices) <= sma_state.sma.period
    /\ SMA_value(sma_state.sma) # Nil <=> Len(sma_state.sma.prices) = sma_state.sma.period
    /\ SMA_is_ready(sma_state.sma) <=> Len(sma_state.sma.prices) = sma_state.sma.period

\* C15: update completes normally for every period, period 0 included.
C15_UpdateCompletes == ~sma_state.panicked

\* With a period of at least 1 the retained length, value() and is_ready() agree
ReadyIffValueFromPeriodOne == sma_state.sma.period >= 1 => C14_ReadyIffValue

----------------------------------------------------------------------------
\* Properties of the windowed RSI

\* C16: whenever value() is defined it lies in [0, 100], and it is 100
\* whenever avg_loss is 0.
C16_ValueBounded ==
    LET Bounded(v) ==
            v # Nil =>
                /\ 0 <= v[1]
                /\ v[1] <= FromInt(100)
                /\ rsi_state.rsi.avg_loss = Some(0) => v[1] = FromInt(100)
    IN  Bounded(RSI_value(rsi_state.rsi))

\* Gains and losses were both averaged and the value lies strictly inside the
\* interval
C16_MixedWindow ==
    /\ rsi_state.rsi.avg_gain # Nil
    /\ rsi_state.rsi.avg_gain[1] > 0
    /\ rsi_state.rsi.avg_loss[1] > 0
    /\ RSI_value(rsi_state.rsi)[1] > 0
    /\ RSI_value(rsi_state.rsi)[1] < FromInt(100)

\* C17: if value() is defined and every loss entry retained in the window is
\* zero, value() is exactly 100.
C17_NoLossMeansFull ==
    (/\ RSI_value(rsi_state.rsi) # Nil
     /\ \A i \in DOMAIN rsi_state.rsi.losses : rsi_state.rsi.losses[i][1] = 0)
        => RSI_value(rsi_state.rsi) = Some(FromInt(100))

\* C18: an update whose price equals the prior price changes nothing of the
\* indicator: queues, averages, last_price, last_update and value() stay.
C18_DuplicateIgnored ==
    [][(rsi_state.rsi.last_price = Some(rsi_state'.last_call[1].price))
          => /\ rsi_state'.rsi = rsi_state.rsi
             /\ RSI_value(rsi_state'.rsi) = RSI_value(rsi_state.rsi)]_vars

\* The last update repeated the price at another time than the recorded one,
\* on an indicator whose value is defined
C18_RepeatedPrice ==
    /\ rsi_state.last_call # Nil
    /\ rsi_state.rsi.last_price = Some(rsi_state.last_call[1].price)
    /\ rsi_state.rsi.last_update # Some(rsi_state.last_call[1].timestamp)
    /\ RSI_value(rsi_state.rsi) # Nil

\* C19: value() is defined only while the window retains at least period
\* samples.
C19_DefinedOnlyWhenFull ==
    RSI_value(rsi_state.rsi) # Nil => Len(rsi_state.rsi.gains) >= rsi_state.rsi.period

\* C20: after a non-duplicate update at timestamp t no retained gain or loss
\* entry is older than t - window_duration.
C20_WindowPruned ==
    (/\ rsi_state.last_call # Nil
     /\ rsi_state.rsi.last_update = Some(rsi_state.last_call[1].timestamp))
        => /\ \A i \in DOMAIN rsi_state.rsi.gains : rsi_state.rsi.gains[i][2] >= rsi_state.last_call[1].timestamp - rsi_state.rsi.window_duration
           /\ \A i \in DOMAIN rsi_state.rsi.losses : rsi_state.rsi.losses[i][2] >= rsi_state.last_call[1].timestamp - rsi_state.rsi.window_duration

----------------------------------------------------------------------------
\* Properties of the VWAP

\* Every update was made with a positive volume, and none after the first
\* reset the accumulators
SameWindow(updates) ==
    /\ updates # <<>>
    /\ \A i \in DOMAIN updates : updates[i].volume > 0
    /\ \A i \in DOMAIN updates : i > 1 => ~updates[i].reset

\* C21: for updates (p_i, v_i) with positive volumes in one accumulation
\* window, value() is sum(p_i * v_i) / sum(v_i), total_volume() is sum(v_i)
\* and trade_count() is the number of updates.
C21_WeightedMean ==
    LET u == vwap_state.updates
    IN  SameWindow(u) =>
            /\ VwapIndicator_value(vwap_state.vwap) = Some(Div(Sum([i \in DOMAIN u |-> Mul(u[i].price, u[i].volume)]), Sum([i \in DOMAIN u |-> u[i].volume])))
            /\ total_volume(vwap_state.vwap) = Sum([i \in DOMAIN u |-> u[i].volume])
            /\ trade_count(vwap_state.vwap) = Len(u)

\* Three updates of one window with different prices, volumes and times
C21_MixedTrades ==
    /\ Len(vwap_state.updates) = 3
    /\ SameWindow(vwap_state.updates)
    /\ vwap_state.updates[1].price # vwap_state.updates[2].price
    /\ vwap_state.updates[1].volume # vwap_state.updates[2].volume
    /\ vwap_state.updates[1].timestamp # vwap_state.updates[3].timestamp

\* An update step resets iff it is the first update or comes at least
\* reset_period after last_reset, with the stated effects
ResetsAsStated ==
    LET v == vwap_state.vwap
        w == vwap_state'.vwap
        u == vwap_state'.updates[Len(vwap_state'.updates)]
    IN  /\ u.reset <=> (v.last_reset = Nil \/ u.timestamp - v.last_reset[1] >= v.reset_period)
        /\ (u.reset /\ u.volume > 0) =>
              /\ VwapIndicator_value(w) = Some(u.price)
              /\ total_volume(w) = u.volume
              /\ trade_count(w) = 1
              /\ w.last_reset = Some(u.timestamp)
        /\ ~u.reset => w.last_reset = v.last_reset

\* C22: an update resets iff it is the first one or comes at least
\* reset_period after last_reset; after a resetting update with volume > 0
\* the value is its price, the total volume its volume, the trade count 1 and
\* last_reset its timestamp; any other update leaves last_reset alone.
C22_ResetIff == [][ResetsAsStated]_vars

\* C23: value() is defined iff volume_sum > 0 in the current window, and when
\* defined it is price_volume_sum / volume_sum.
C23_DefinedIffVolume ==
    /\ VwapIndicator_value(vwap_state.vwap) # Nil <=> vwap_state.vwap.volume_sum > 0
    /\ VwapIndicator_value(vwap_state.vwap) # Nil =>
          VwapIndicator_value(vwap_state.vwap) = Some(Div(vwap_state.vwap.price_volume_sum, vwap_state.vwap.volume_sum))

\* With a positive reset period, resets are as C22 states them
ResetIffFromPositivePeriod ==
    [][vwap_state.vwap.reset_period > 0 => ResetsAsStated]_vars

\* While no negative volume was passed, value() and volume_sum agree
DefinedIffVolumeWithoutNegatives ==
    (\A i \in DOMAIN vwap_state.updates : vwap_state.updates[i].volume >= 0) => C23_DefinedIffVolume
----------------------------------------------------------------------------
\* PositionSizer

LastSizerCall(fn) == sizer_state # Nil /\ sizer_state.last # Nil /\ sizer_state.last[1].fn = fn

\* C24: for every price <= 0 calculate_quantity returns 0, for every price > 0
\* it returns (wallet_size * risk_percentage) / price rounded to 8 decimal
\* places, and for every price calculate_position_value(price) is
\* calculate_quantity(price) * price.  The rounded quotient q (in units of
\* 10^-8) is stated by its remainder: with n = wallet_size * risk_percentage
\* and d = price in the same units, n * 10^8 - q * d lies within half of d,
\* and q is even when it lies exactly at half.
C24_QuantityAndValue ==
    [][\A price \in SizerPrices :
         LET sizer == sizer_state.sizer
             n     == sizer.wallet_size * sizer.risk_percentage
             d     == price * Scale
             floor == LongDiv(n % d, d, 8, n \div d)
         IN  /\ CalculateQuantity(price) =>
                  LET q == sizer_state'.last[1].result
                  IN  IF price <= 0 THEN q = 0
                      ELSE \/ q = floor.q /\ 2 * floor.r < d
                           \/ q = floor.q + 1 /\ 2 * floor.r > d
                           \/ q \in {floor.q, floor.q + 1} /\ 2 * floor.r = d /\ q % 2 = 0
             /\ CalculatePositionValue(price) =>
                  sizer_state'.last[1].result = calculate_quantity(sizer, price) * price]_vars

\* a quantity that had to be rounded up has been computed
C24_RoundedUp ==
    /\ LastSizerCall("calculate_quantity")
    /\ sizer_state.last[1].arg = 3
    /\ sizer_state.sizer = [wallet_size |-> FromInt(2), risk_percentage |-> 10]
    /\ sizer_state.last[1].result = 666666667

C26_MutatorsFrame ==
    [][/\ \A w \in SizerWallets : UpdateWalletSize(w) =>
            /\ sizer_state'.sizer.wallet_size = w
            /\ sizer_state'.sizer.risk_percentage = sizer_state.sizer.risk_percentage
       /\ \A r \in RiskPercentages : UpdateRiskPercentage(r) =>
            /\ sizer_state'.sizer.risk_percentage = r
            /\ sizer_state'.sizer.wallet_size = sizer_state.sizer.wallet_size
       /\ \A price \in SizerPrices : CalculateQuantity(price) =>
            sizer_state'.last[1].result = calculate_quantity(sizer_state.requested, price)]_vars

\* a quantity computed after both mutators changed the sizer
C26_QuantityAfterMutators ==
    /\ LastSizerCall("calculate_quantity")
    /\ sizer_state.mutators = {"update_wallet_size", "update_risk_percentage"}
    /\ sizer_state.last[1].arg = 4
    /\ sizer_state.requested = [wallet_size |-> FromInt(2), risk_percentage |-> 10]
    /\ sizer_state.last[1].result = 500000000
----------------------------------------------------------------------------
\* Grid spacing and volatility

\* C27: the grid spacing used at generation is
\* price * grid_spacing_percentage * m, where m = 1.5 if volatility > 5,
\* m = 0.7 if volatility < 2 and m = 1.0 otherwise (so a volatility of exactly
\* 5 or exactly 2 gives 1.0), and volatility is 0 whenever tma == 0.  The
\* products are stated exactly: base * Scale = price * percentage and
\* spacing * Scale = base * m; the generated levels are spaced by it.
C27_SpacingByVolatility ==
    /\ call # Nil /\ call[1].fn = "calculate_grid_spacing" =>
         LET price      == call[1].args[1]
             volatility == call[1].args[3]
             m          == IF volatility > FromInt(5) THEN 1500
                           ELSE IF volatility < FromInt(2) THEN 700
                           ELSE 1000
             spacing    == call[1].result
         IN  /\ \E base \in 0..price :
                  /\ base * Scale = price * grid.grid_spacing_percentage
                  /\ spacing * Scale = base * m
             /\ call[1].levels.sell_levels = {price + i * spacing : i \in 1..grid.max_grid_levels}
             /\ call[1].levels.buy_levels = {price - i * spacing : i \in {j \in 1..grid.max_grid_levels : price - j * spacing > 0}}
    /\ call # Nil /\ call[1].fn = "calculate_volatility" /\ call[1].args[3] = 0 =>
         call[1].result = 0

\* the spacing has been computed at a volatility of exactly 5 and is the
\* base spacing
C27_AtThreshold ==
    /\ call # Nil
    /\ call[1].fn = "calculate_grid_spacing"
    /\ call[1].args[3] = FromInt(5)
    /\ call[1].result = Mul(call[1].args[1], grid.grid_spacing_percentage)
----------------------------------------------------------------------------
\* Grid state across decision cycles

\* the instruments of an engine state that a cycle evaluates
EvaluatedIn(engine_state) == {k \in DOMAIN engine_state : Evaluated(engine_state[k])}

\* the zone of a price against the bands of tma, in exact arithmetic
ZoneOf(price, tma, band_percentage) ==
    IF price * Scale > tma * (Scale + band_percentage) THEN "AboveHighBand"
    ELSE IF price * Scale < tma * (Scale - band_percentage) THEN "BelowLowBand"
    ELSE "BetweenBands"

\* C28: after every evaluated decision cycle for an instrument (whether or
\* not a signal was emitted), the stored current_price equals that cycle's
\* price, last_grid_zone equals the zone of that price against that cycle's
\* bands and last_tma_state equals that cycle's trend; the next cycle uses
\* exactly these as previous price and previous zone: its trend is taken
\* against the stored price and its zone-transition signal starts from the
\* stored zone.
StoredAsEvaluated ==
    \A k \in EvaluatedIn(state') :
        LET name     == state'[k].name
            price    == state'[k].data.price[1]
            tma      == state'[k].data.sma[1]
            known    == name \in DOMAIN instrument_grids
            previous_price == IF known THEN instrument_grids[name].current_price ELSE price
            previous_zone  == IF known THEN instrument_grids[name].last_grid_zone ELSE "BetweenBands"
            stored   == instrument_grids'[name]
        IN  /\ stored.current_price = price
            /\ stored.last_grid_zone = ZoneOf(price, tma, grid.band_percentage)
            /\ stored.last_tma_state = determine_tma_state(price, tma, previous_price)
            /\ \A i \in DOMAIN signals'[k] :
                 signals'[k][i].grid_level = Nil =>
                   signals'[k][i].signal_source = <<"TRADITIONAL", previous_zone, stored.last_grid_zone>>

C28_StoredAsEvaluated == [][cycles' = cycles + 1 => StoredAsEvaluated]_vars

\* a second cycle without any signal has stored a zone and a trend that
\* differ from the defaults
C28_QuietCycle ==
    /\ cycles >= 2
    /\ \E k \in EvaluatedIn(state) :
         /\ signals[k] = <<>>
         /\ state[k].name \in DOMAIN instrument_grids
         /\ instrument_grids[state[k].name].current_price = state[k].data.price[1]
         /\ instrument_grids[state[k].name].last_grid_zone = "AboveHighBand"
         /\ instrument_grids[state[k].name].last_tma_state = "BullishTrend"

\* the map restricted to the entry of one name, if it has one
OnlyEntry(grids, name) == [n \in DOMAIN grids \cap {name} |-> grids[n]]

\* C29: an instrument's grid state is created on its first evaluated cycle
\* with previous zone BetweenBands, trend Sideways, empty level sets and empty
\* filled set; entries are never removed from the map, there is exactly one
\* entry per distinct instrument name, and a decision cycle for one instrument
\* leaves every other instrument's entry unchanged.  The entries after a
\* cycle are those of the instruments evaluated so far; a created entry has
\* its levels generated in that cycle, holds as filled only the levels
\* crossed in that cycle and has a zone-transition signal that starts from
\* BetweenBands; each evaluated entry is what the cycle makes of that
\* instrument alone.
EntriesAsEvaluated ==
    LET names == {state'[k].name : k \in EvaluatedIn(state')}
    IN  /\ DOMAIN instrument_grids \subseteq DOMAIN instrument_grids'
        /\ DOMAIN instrument_grids' = DOMAIN instrument_grids \cup names
        /\ \A n \in DOMAIN instrument_grids \ names : instrument_grids'[n] = instrument_grids[n]
        /\ \A k \in EvaluatedIn(state') :
             LET name    == state'[k].name
                 alone   == process_instrument_signal(grid, OnlyEntry(instrument_grids, name), state'[k])
                 created == NewInstrumentGridState(grid, state'[k].data.price[1], 0)
             IN  /\ instrument_grids'[name] = alone.instrument_grids[name]
                 /\ name \notin DOMAIN instrument_grids =>
                      /\ created.last_grid_zone = "BetweenBands"
                      /\ created.last_tma_state = "Sideways"
                      /\ created.buy_levels = {} /\ created.sell_levels = {}
                      /\ created.filled_levels = {}
                      /\ grid_setup'[k] # Nil
                      /\ instrument_grids'[name].filled_levels =
                           {signals'[k][i].price : i \in {j \in DOMAIN signals'[k] : signals'[k][j].grid_level # Nil}}
                      /\ \A i \in DOMAIN signals'[k] :
                           signals'[k][i].grid_level = Nil => signals'[k][i].signal_source[2] = "BetweenBands"

C29_EntriesAsEvaluated == [][cycles' = cycles + 1 => EntriesAsEvaluated]_vars

\* a cycle that evaluates one instrument only, with entries for both
C29_OtherEntryKept ==
    /\ cycles >= 2
    /\ DOMAIN instrument_grids = Names
    /\ \E k \in DOMAIN state : ~Evaluated(state[k])
    /\ \E k \in EvaluatedIn(state) : signals[k] # <<>>

\* the price history an instrument enters a cycle with
HistoryBefore(grids, name, price) ==
    IF name \in DOMAIN grids THEN grids[name].price_history ELSE <<price>>

\* C30: after every evaluated decision cycle, the instrument's price_history
\* has length <= price_history_length, and when a push would exceed that
\* length the oldest (front) entry is the one evicted.
HistoryBounded ==
    \A k \in EvaluatedIn(state') :
        LET price  == state'[k].data.price[1]
            before == HistoryBefore(instrument_grids, state'[k].name, price)
            after  == instrument_grids'[state'[k].name].price_history
        IN  /\ Len(after) <= grid.price_history_length
            /\ IF Len(before) + 1 > grid.price_history_length
               THEN after = Tail(before) \o <<price>>
               ELSE after = before \o <<price>>

C30_HistoryBounded == [][cycles' = cycles + 1 => HistoryBounded]_vars

\* the history is full and has lost its first entries: the price of the
\* second cycle is at its front
C30_OldestEvicted ==
    /\ cycles = 51
    /\ "btc_usdt" \in DOMAIN instrument_grids
    /\ Len(instrument_grids["btc_usdt"].price_history) = grid.price_history_length
    /\ instrument_grids["btc_usdt"].price_history[1] = FromInt(11)
    /\ instrument_grids["btc_usdt"].price_history[2] = FromInt(10)
    /\ state[1].data.price = Some(FromInt(11))

\* how often level l is the price of a crossing signal logged for name n
TimesCrossed(log, n, l) == Cardinality({a \in DOMAIN log[n] : log[n][a] = l})

\* C31: filled_levels never shrinks across decision cycles (no operation
\* removes an element, including level regeneration), and a level is in
\* filled_levels iff exactly one crossing signal with that level as its price
\* has been emitted for the instrument; no level has more than one.
FilledAsCrossed ==
    /\ \A n \in DOMAIN instrument_grids :
         instrument_grids[n].filled_levels \subseteq instrument_grids'[n].filled_levels
    /\ \A k \in DOMAIN signals' : \A i \in DOMAIN signals'[k] :
         signals'[k][i].grid_level # Nil => signals'[k][i].price = signals'[k][i].grid_level[1]
    /\ \A n \in DOMAIN instrument_grids' :
         \A l \in instrument_grids'[n].filled_levels \cup Range(crossing_log'[n]) :
            /\ l \in instrument_grids'[n].filled_levels <=> TimesCrossed(crossing_log', n, l) = 1
            /\ TimesCrossed(crossing_log', n, l) <= 1

C31_FilledAsCrossed == [][cycles' = cycles + 1 => FilledAsCrossed]_vars

\* filled levels of two earlier cycles are kept by a cycle that crosses none
C31_FilledKept ==
    /\ cycles >= 3
    /\ \E k \in EvaluatedIn(state) :
         /\ state[k].name \in DOMAIN instrument_grids
         /\ Crossings(signals[k]) = <<>>
         /\ Cardinality(instrument_grids[state[k].name].filled_levels) >= 2
         /\ instrument_grids[state[k].name].filled_levels \cap instrument_grids[state[k].name].buy_levels # {}
         /\ instrument_grids[state[k].name].filled_levels \cap instrument_grids[state[k].name].sell_levels # {}

\* avg is the mean of the changes of queue, cut after the last decimal place
MeanOf(avg, queue) ==
    /\ avg # Nil
    /\ avg[1] * Len(queue) <= Sum(Changes(queue))
    /\ Sum(Changes(queue)) < (avg[1] + 1) * Len(queue)

\* queue is what is left of older after popping entries from its front
SuffixOf(queue, older) ==
    /\ Len(queue) <= Len(older)
    /\ queue = SubSeq(older, Len(older) - Len(queue) + 1, Len(older))

\* C32: in the windowed RSI, the first update records no gain or loss and
\* leaves value() undefined; on each later non-duplicate update a positive
\* change appends (change, t) to gains and (0, t) to losses, otherwise (0, t)
\* to gains and (|change|, t) to losses; and when the retained count after
\* pruning is >= period, avg_gain and avg_loss are the means over all
\* retained entries (sum divided by the retained count, not by period).
GainsAndLossesRecorded ==
    LET r     == rsi_state.rsi
        after == rsi_state'.rsi
        price == rsi_state'.last_call[1].price
        t     == rsi_state'.last_call[1].timestamp
    IN  /\ r.last_price = Nil =>
              /\ after.gains = <<>> /\ after.losses = <<>>
              /\ RSI_value(after) = Nil
        /\ r.last_price # Nil /\ r.last_price[1] # price =>
              LET change == price - r.last_price[1]
                  gain   == IF change > 0 THEN change ELSE 0
                  loss   == IF change > 0 THEN 0 ELSE 0 - change
              IN  /\ SuffixOf(after.gains, Append(r.gains, <<gain, t>>))
                  /\ SuffixOf(after.losses, Append(r.losses, <<loss, t>>))
                  /\ after.gains # <<>> /\ after.losses # <<>>
                  /\ Len(after.gains) = Len(after.losses)
                  /\ Len(after.gains) >= r.period =>
                        /\ MeanOf(after.avg_gain, after.gains)
                        /\ MeanOf(after.avg_loss, after.losses)

C32_GainsAndLossesRecorded == [][rsi_state'.calls = rsi_state.calls + 1 => GainsAndLossesRecorded]_vars

\* averages over three retained entries with a period of two
C32_MoreThanPeriod ==
    /\ rsi_state # Nil
    /\ rsi_state.rsi.period = 2
    /\ Len(rsi_state.rsi.gains) = 3
    /\ Sum(Changes(rsi_state.rsi.gains)) = FromInt(2)
    /\ Sum(Changes(rsi_state.rsi.losses)) = FromInt(1)
    /\ rsi_state.rsi.avg_gain = Some(666)
    /\ rsi_state.rsi.avg_loss = Some(333)
----------------------------------------------------------------------------
\* AlgorithmData

\* C33: when AlgorithmData processes a market event, the VWAP indicator
\* changes only if the event is a trade (it is then updated with the trade's
\* price and amount at the event's receive time); a non-trade market event
\* leaves the VWAP state unchanged, and an account event leaves the entire
\* AlgorithmData unchanged.
VwapOnTradesOnly ==
    LET d     == data_state.data
        after == data_state'.data
        last  == data_state'.last[1]
    IN  /\ last.market /\ last.event.kind = "Trade" =>
              after.vwap = VwapIndicator_update(d.vwap, last.event.price, last.event.amount, last.event.time_received)
        /\ last.market /\ last.event.kind # "Trade" => after.vwap = d.vwap
        /\ ~last.market => after = d

C33_VwapOnTradesOnly == [][data_state'.events = data_state.events + 1 => VwapOnTradesOnly]_vars

\* an order book event has moved the price and the RSI while the VWAP keeps
\* the one trade before it
C33_BookEventAfterTrade ==
    /\ data_state # Nil
    /\ data_state.last # Nil
    /\ data_state.last[1].market
    /\ data_state.last[1].event.kind = "OrderBookL1"
    /\ data_state.data.market_data.price = Some(FromInt(20))
    /\ data_state.data.rsi.gains = <<FromInt(10)>>
    /\ trade_count(data_state.data.vwap) = 1
    /\ VwapIndicator_value(data_state.data.vwap) = Some(FromInt(10))
    /\ total_volume(data_state.data.vwap) = FromInt(3)

\* C34: in the sample-interval RSI used by AlgorithmData, an update whose
\* timestamp is less than sample_interval after the last accepted update (or
\* earlier than it) changes no state at all; hence accepted updates are spaced
\* at least sample_interval apart, last_update never decreases, and the gains
\* and losses queues never hold more than period entries.
SampledAtInterval ==
    LET r     == data_state.data.rsi
        after == data_state'.data.rsi
        last  == data_state'.last[1]
    IN  /\ (/\ last.market
            /\ r.last_update # Nil
            /\ last.event.time_received - r.last_update[1] < r.sample_interval) => after = r
        /\ r.last_update # Nil =>
              /\ after.last_update # Nil
              /\ after.last_update[1] >= r.last_update[1]
              /\ after # r => after.last_update[1] - r.last_update[1] >= r.sample_interval
        /\ Len(after.gains) <= after.period
        /\ Len(after.losses) <= after.period

C34_SampledAtInterval == [][data_state'.events = data_state.events + 1 => SampledAtInterval]_vars

\* the third accepted update has pushed the first change out of the queues
C34_QueueTrimmed ==
    /\ data_state # Nil
    /\ data_state.data.rsi.period = 1
    /\ data_state.data.rsi.last_update = Some(4)
    /\ data_state.data.rsi.last_price = Some(FromInt(10))
    /\ data_state.data.rsi.gains = <<0>>
    /\ data_state.data.rsi.losses = <<FromInt(10)>>
    /\ data_state.data.rsi.avg_loss = Some(FromInt(10))
----------------------------------------------------------------------------
\* The Vwap strategy

\* the signal came from the RSI, alone or together with the VWAP
RsiSourced(signal) == signal # Nil /\ signal[1].signal_source \in {"RSI", "COMBINED"}

\* C35: in the Vwap strategy, an RSI-sourced signal is emitted for an
\* instrument only in a cycle where the stored previous RSI state is Neutral
\* and the current one is Overbought (Sell) or Oversold (Buy); the stored
\* state is updated on every evaluated cycle whether or not a signal is
\* emitted, so between two RSI-sourced signals for the same instrument there
\* is always a cycle whose RSI state was Neutral.
RsiSignalsFromNeutral ==
    LET v      == strategy_state.vwap
        last   == strategy_state'.last[1]
    IN  /\ \A k \in DOMAIN last.engine_state :
              LET name    == last.engine_state[k].name
                  current == IF last.engine_state[k].data.rsi[1] > FromInt(80) THEN "Overbought"
                             ELSE IF last.engine_state[k].data.rsi[1] < FromInt(20) THEN "Oversold"
                             ELSE "Neutral"
              IN  IF StrategyEvaluated(last.engine_state[k])
                  THEN /\ strategy_state'.vwap.last_rsi_state[name] = current
                       /\ RsiSourced(last.signals[k]) =>
                            /\ GetOr(v.last_rsi_state, name, "Neutral") = "Neutral"
                            /\ \/ current = "Overbought" /\ last.signals[k][1].signal_type = "Sell"
                               \/ current = "Oversold" /\ last.signals[k][1].signal_type = "Buy"
                  ELSE /\ last.signals[k] = Nil
                       /\ name \in DOMAIN v.last_rsi_state <=> name \in DOMAIN strategy_state'.vwap.last_rsi_state
                       /\ name \in DOMAIN v.last_rsi_state =>
                            strategy_state'.vwap.last_rsi_state[name] = v.last_rsi_state[name]
        /\ \A n \in Names :
              \A a, b \in DOMAIN strategy_state'.log[n] :
                 (a < b /\ RsiSourced(strategy_state'.log[n][a].signal) /\ RsiSourced(strategy_state'.log[n][b].signal)) =>
                    \E c \in DOMAIN strategy_state'.log[n] :
                       a < c /\ c < b /\ strategy_state'.log[n][c].rsi_state = "Neutral"

C35_RsiSignalsFromNeutral == [][strategy_state'.cycles = strategy_state.cycles + 1 => RsiSignalsFromNeutral]_vars

\* a second RSI-sourced signal for an instrument, after a Neutral cycle
C35_SecondRsiSignal ==
    /\ strategy_state # Nil
    /\ \E n \in Names :
         /\ Len(strategy_state.log[n]) = 4
         /\ RsiSourced(strategy_state.log[n][1].signal)
         /\ strategy_state.log[n][2].rsi_state = "Overbought"
         /\ strategy_state.log[n][2].signal = Nil
         /\ strategy_state.log[n][3].rsi_state = "Neutral"
         /\ RsiSourced(strategy_state.log[n][4].signal)
----------------------------------------------------------------------------
\* Zones and trends of one cycle

\* C36: for tma > 0 and band_percentage >= 0, zone BelowLowBand never occurs
\* together with BullishTrend and zone AboveHighBand never occurs together
\* with BearishTrend in the same cycle; so the two trend-conditioned fallback
\* rows never emit, and every fallback signal is emitted in a cycle whose
\* current zone is BetweenBands.
C36_ZoneExcludesTrend ==
    (call # Nil /\ call[1].fn = "classify" /\ call[1].args[4] > 0 /\ call[1].args[1] >= 0) =>
        /\ ~(call[1].zone = "BelowLowBand" /\ call[1].trend = "BullishTrend")
        /\ ~(call[1].zone = "AboveHighBand" /\ call[1].trend = "BearishTrend")
        /\ (call[1].should /\ call[1].result # "None") => call[1].zone = "BetweenBands"
        /\ call[1].args[2] = "BetweenBands" => ~call[1].should /\ call[1].result = "None"

\* a cycle leaves the bands upwards with the price above the average before
\* and after: no fallback signal
C36_LeftBandsNoSignal ==
    /\ call # Nil
    /\ call[1].fn = "classify"
    /\ call[1].args[2] = "BetweenBands"
    /\ call[1].zone = "AboveHighBand"
    /\ call[1].trend = "BullishTrend"
    /\ call[1].result = "None"

\* the multiplier of the grid spacing at a volatility
MultiplierAt(volatility) ==
    IF volatility > FromInt(5) THEN 1500
    ELSE IF volatility < FromInt(2) THEN 700
    ELSE 1000

\* the spacing is price * grid_spacing_percentage * m, exactly
SpacingWith(spacing, price, m) ==
    /\ (price * grid.grid_spacing_percentage) % Scale = 0
    /\ spacing * Scale = ((price * grid.grid_spacing_percentage) \div Scale) * m

FirstEvaluatedIn(engine_state, grids) ==
    {k \in EvaluatedIn(engine_state) :
        /\ engine_state[k].name \notin DOMAIN grids
        /\ \A j \in EvaluatedIn(engine_state) : j < k => engine_state[j].name # engine_state[k].name}

\* A cycle step emits nothing for an instrument it evaluates for the first
\* time, and the levels it generates differ from the price
QuietFirstCycle ==
    \A k \in FirstEvaluatedIn(state', instrument_grids) :
        LET price   == state'[k].data.price[1]
            tma     == calculate_tma(state'[k].data.sma[1])
            created == instrument_grids'[state'[k].name]
        IN  (price > 0 /\ tma > 0 /\ grid.band_percentage >= 0 /\ created.grid_spacing > 0) =>
                /\ signals'[k] = <<>>
                /\ grid_setup'[k] # Nil
                /\ PreviousPrice(created) = price
                /\ price \notin created.buy_levels \cup created.sell_levels
                /\ created.filled_levels = {}

\* C38: for price > 0, tma > 0, band_percentage >= 0 and positive grid
\* spacing, the first evaluated decision cycle of an instrument (which also
\* generates its levels) emits no signal at all: previous price equals current
\* price and all new levels differ from the current price, so no crossing is
\* detected, and from the default previous zone BetweenBands no fallback row
\* fires.
C38_QuietFirstCycle == [][cycles' = cycles + 1 => QuietFirstCycle]_vars

\* an instrument first evaluated in the second cycle, outside the bands, with
\* levels on both sides and no signal, while the other instrument signals
C38_LateFirstCycle ==
    /\ cycles = 2
    /\ \E k \in EvaluatedIn(state) :
         /\ Len(instrument_grids[state[k].name].price_history) = 2
         /\ instrument_grids[state[k].name].last_grid_zone = "AboveHighBand"
         /\ instrument_grids[state[k].name].buy_levels # {}
         /\ instrument_grids[state[k].name].sell_levels # {}
         /\ signals[k] = <<>>
         /\ \E j \in EvaluatedIn(state) : signals[j] # <<>>

\* C39: all signals emitted for one instrument in one decision cycle have the
\* same side: a cycle never emits both a Buy and a Sell for the same
\* instrument, because a buy-level crossing requires current_price <
\* previous_price and a sell-level crossing requires current_price >
\* previous_price.
C39_OneSidePerCycle ==
    \A k \in DOMAIN signals :
        /\ \A i, j \in DOMAIN signals[k] : signals[k][i].signal_type = signals[k][j].signal_type
        /\ \A i \in DOMAIN signals[k] :
             /\ signals[k][i].signal_type \in {"Buy", "Sell"}
             /\ (signals[k][i].grid_level # Nil /\ signals[k][i].signal_type = "Buy") =>
                    state[k].data.price[1] < PreviousPrice(instrument_grids[state[k].name])
             /\ (signals[k][i].grid_level # Nil /\ signals[k][i].signal_type = "Sell") =>
                    state[k].data.price[1] > PreviousPrice(instrument_grids[state[k].name])

\* one cycle with several Buy crossings for one instrument and several Sell
\* crossings for the other
C39_BothSidesInOneCycle ==
    \E k, j \in DOMAIN signals :
        /\ Len(signals[k]) >= 2
        /\ Len(signals[j]) >= 2
        /\ signals[k][1].signal_type = "Buy"
        /\ signals[j][1].signal_type = "Sell"

\* C40: fed the same sequence of prices, SmaInstrumentData (fixed period 5,
\* value computed on demand) and the SMA indicator constructed with period 5
\* (value cached on update) report the same value after every update: both
\* undefined before the 5th price and both equal to the mean of the last 5
\* prices afterwards.
C40_SameValue ==
    LET on_demand == SmaInstrumentData_sma(sma_data_state.instrument)
        cached    == SMA_value(sma_data_state.sma)
        N         == Len(sma_data_state.closes)
    IN  /\ on_demand = cached
        /\ N < 5 => cached = Nil
        /\ N >= 5 =>
             /\ cached # Nil
             /\ cached[1] * 5 = Sum(LastN(sma_data_state.closes, 5))
        /\ sma_data_state.instrument.closes = sma_data_state.sma.prices

\* seven closes, the two evicted ones different from those that replaced them
C40_TwoEvicted ==
    /\ Len(sma_data_state.closes) = 7
    /\ SmaInstrumentData_sma(sma_data_state.instrument) # Nil
    /\ sma_data_state.closes[1] # sma_data_state.closes[6]
    /\ sma_data_state.closes[2] # sma_data_state.closes[7]
    /\ Sum(LastN(sma_data_state.closes, 5)) # Sum(SubSeq(sma_data_state.closes, 1, 5))
    /\ SmaInstrumentData_last_close(sma_data_state.instrument) = Some(sma_data_state.closes[7])

====
